---- MODULE Spec2Model ----
(***************************************************************************)
(* Superior Reading browser extension: Spotify OAuth (PKCE) coordinator,   *)
(* token store, background relay, and the popup / sandbox-frame playback   *)
(* handshake.                                                              *)
(*                                                                         *)
(* The repository holds two copies of the auth module:                     *)
(*   "current" = src/unnamed/part_000                                      *)
(*   "legacy"  = src/Frontend/chrome_extension/spotify_auth.js             *)
(* The variable build says which copy is loaded; it never changes.         *)
(*                                                                         *)
(* Time is counted in whole minutes (1 unit = 60000 ms of Date.now()).     *)
(* A missing (undefined) JavaScript value is None (-1).                    *)
(***************************************************************************)
EXTENDS Integers, Sequences, FiniteSets, TLC

\* ------------------------------------------------------------------ bounds
MaxTime == 2          \* the clock runs from 0 to MaxTime minutes
MaxToken == 2         \* the provider makes grants 1..MaxToken; a token is named by its grant
MaxCallers == 1       \* concurrent getAccessToken() calls
MaxAttempts == 2      \* 'authenticate' requests the relay handles
MaxPlays == 2         \* playRecommendations() requests
MaxDevices == 3       \* devices in an answer of /v1/me/player/devices
MaxChecks == 3        \* checkPendingRecommendations() runs
MaxRequests == 2      \* 'startPlayback' messages the background handles
MaxCommands == 2      \* play / pause / next / previous commands of the popup
MaxInits == 3         \* init_player messages the sandbox frame receives
MaxChanges == 2       \* token-change events that wait for the popup at a time

\* ------------------------------------------------------- program constants
MarginMinutes == 5            \* 5 * 60 * 1000 ms
DefaultExpiresIn == 60        \* 3600 s

None == 0 - 1
NaN == 0 - 2          \* stored by chrome.storage as null
NoError == "none"
Builds == {"current", "legacy"}
Tokens == 1..MaxToken
Callers == 1..MaxCallers
Attempts == 1..MaxAttempts
PlayCalls == 1..MaxPlays
InitCalls == 1..MaxInits
\* lifetimes (minutes) the provider may put in expires_in; None = field omitted
Lifetimes == {7}

VARIABLES
    build,      \* which copy of the auth module is loaded
    now,        \* Date.now()
    store,      \* chrome.storage.local: spotify_access_token / _refresh_token / _expires_at
    calls,      \* getAccessToken() calls in progress, one per caller
    attempts,   \* 'authenticate' requests handled by the background relay
    popup,      \* the popup's connect button and its 60 s timer
    authRequests, \* 'authenticate' messages on their way to the background
    player,     \* popup.js: the player state variables of the popup
    plays,      \* popup.js: playRecommendations() calls, one per request
    cmds,       \* play commands sent to the Web API, per request
    frame,      \* the sandbox frame's player
    inbox,      \* messages posted by the frame, not yet handled by the popup
    readyHandlers, \* one-off listeners of ensurePlayerReady, in registration order
    pkce,       \* generateCodeVerifier() at work
    api,        \* an isAuthenticated() or clearTokens() call of the auth module
    sandbox,    \* the sandbox frame: errorSent, spotifyPlayer, its initializePlayer() runs
    popupInit,  \* popup.js: the initializePlayerAuth() run of a popup that was opened
    missed,     \* authStatus events sent while no popup was open to receive them
    lookup,     \* popup.js: a getSpotifyDevices() call
    pend,       \* the stored playback request and the popup's checkPendingRecommendations() runs
    ctl,        \* popup.js: controlPlayback() calls and the PUT of playRecommendations()
    authUi,     \* popup.js: the authStatus listener and the 60 s timer's callback
    waits,      \* popup.js: the readiness waits of ensurePlayerReady, one per call
    deviceSource, \* who set the popup's deviceId last: the frame's ready message or the fallback
    tokenChanges \* storage-change events with token keys that wait for the popup's onChanged listener

tokenState == <<calls>>
authState == <<attempts, popup, authRequests>>
playState == <<player, plays, cmds, frame, inbox, readyHandlers>>
pkceState == <<pkce>>
apiState == <<api>>
sandboxState == <<sandbox>>
reopenState == <<popupInit, missed>>
lookupState == <<lookup>>
pendState == <<pend>>
ctlState == <<ctl>>
authUiState == <<authUi>>
waitState == <<waits>>
sourceState == <<deviceSource>>
changeState == <<tokenChanges>>
vars == <<build, now, store, calls, attempts, popup, authRequests,
          player, plays, cmds, frame, inbox, readyHandlers, pkce, api, sandbox,
          popupInit, missed, lookup, pend, ctl, authUi, waits, deviceSource, tokenChanges>>

\* no initializePlayerAuth() run is under way
IdlePopupInit == [pc |-> "idle", authenticated |-> FALSE, cause |-> NoError,
                  status |-> "none"]

\* Nothing of a playback request is around: the pendingRecommendations and
\* recommendationsTimestamp keys of chrome.storage.local are absent, no
\* onChanged event waits for the popup, no checkPendingRecommendations() run
\* has started.  played lists the playRecommendations() calls the runs made,
\* slot is the popup's pendingRecommendations variable
IdleCheck == [pc |-> "idle", recs |-> None, timestamp |-> None, cause |-> NoError]
IdlePending == [recs |-> None, timestamp |-> None, posted |-> 0, changes |-> 0,
                checks |-> [k \in 1..MaxChecks |-> IdleCheck],
                played |-> <<>>, slot |-> None]

\* getSpotifyDevices() is not running
IdleLookup == [pc |-> "idle", failed |-> FALSE, devices |-> <<>>, result |-> None]

\* generateCodeVerifier() is not running
IdlePkce == [pc |-> "idle", remaining |-> 0, length |-> 0, padding |-> 0, chars |-> {}]

\* the sandbox frame before any init_player message: no spotifyPlayer (0),
\* errorSent = false.  Of each initializePlayer() run: where it is, whether an
\* SDK error event was reported for its player, and the PLAYER_ERROR texts
\* sent to the parent on its behalf, and the player instance (old) it found in
\* spotifyPlayer and is disconnecting.  live holds the player instances that
\* were created and connected and on which disconnect() has not completed
IdleInit == [pc |-> "idle", reported |-> FALSE, sent |-> <<>>, old |-> 0]

IdleSandbox == [errorSent |-> FALSE, spotifyPlayer |-> 0, live |-> {},
                inits |-> [i \in InitCalls |-> IdleInit]]

\* no isAuthenticated() / clearTokens() call is in progress
\* onEmpty remembers whether the store was empty when the call was made,
\* inflight the authenticate() flows that were waiting for consent or for the
\* token exchange when clearTokens() resolved
IdleApi == [op |-> "none", pc |-> "idle", wrote |-> FALSE, outcome |-> "none",
            result |-> FALSE, cause |-> NoError, onEmpty |-> FALSE, inflight |-> {}]

\* ------------------------------------------------------------- token store
\* the four STORAGE_KEYS of the auth module; cv is spotify_code_verifier
EmptyStore == [at |-> None, rt |-> None, exp |-> None, cv |-> None]

Truthy(x) == x # None /\ x # NaN /\ x # 0

\* chrome.storage.local.set(items): a key whose value is undefined is not
\* serialised, so the stored value of that key stays as it was
StorageSet(s, items) ==
    [at  |-> IF items.at  = None THEN s.at  ELSE items.at,
     rt  |-> IF items.rt  = None THEN s.rt  ELSE items.rt,
     exp |-> IF items.exp = None THEN s.exp ELSE items.exp,
     cv  |-> s.cv]

\* storeTokens: expiresAt = Date.now() + expiresIn * 1000 (NaN when expiresIn is undefined)
ExpiresAt(t, expiresIn) == IF expiresIn = None THEN NaN ELSE t + expiresIn

StoreItems(accessToken, refreshToken, expiresIn, t) ==
    [at |-> accessToken, rt |-> refreshToken, exp |-> ExpiresAt(t, expiresIn)]

\* the read-back check of storeTokens (current copy only)
StoredCorrectly(s) == Truthy(s.at) /\ Truthy(s.rt)

isAuthenticated_ChecksExpiry(s) == Truthy(s.at) /\ Truthy(s.rt) /\ Truthy(s.exp)

\* isAuthenticated: !!(result[ACCESS_TOKEN] && result[REFRESH_TOKEN])
isAuthenticated(s) == Truthy(s.at) /\ Truthy(s.rt)

StillValid_NoMargin(accessToken, expiresAt, t) ==
    Truthy(accessToken) /\ Truthy(expiresAt) /\ t < expiresAt

\* getAccessToken: accessToken && expiresAt && Date.now() < (expiresAt - 5 * 60 * 1000)
StillValid(accessToken, expiresAt, t) ==
    Truthy(accessToken) /\ Truthy(expiresAt) /\ t < expiresAt - MarginMinutes

RefreshExpiresIn_NoDefault(tokenData) == tokenData.expires_in

\* refreshAccessToken: const expiresIn = tokenData.expires_in || 3600
RefreshExpiresIn(tokenData) ==
    IF Truthy(tokenData.expires_in) THEN tokenData.expires_in ELSE DefaultExpiresIn

\* refreshAccessToken: storeTokens(accessToken, refreshToken, expiresIn) with the
\* refresh token that was read from storage before the request
RefreshItems(tokenData, refreshToken, t) ==
    StoreItems(tokenData.access_token, refreshToken, RefreshExpiresIn(tokenData), t)

\* JSON bodies the token endpoint may answer with a 2xx status
TokenData ==
    {[access_token |-> IF hasAccess THEN t ELSE None,
      refresh_token |-> IF hasRefresh THEN t ELSE None,
      expires_in |-> expiresIn] :
        t \in Tokens, hasAccess \in BOOLEAN, hasRefresh \in BOOLEAN,
        expiresIn \in Lifetimes \cup {None}}

\* a 2xx answer to a refresh request carries an access token (RFC 6749 5.1);
\* refresh_token and expires_in are optional, and expires_in may be 0
RefreshTokenData ==
    {d \in TokenData : d.access_token # None}
      \cup {[d EXCEPT !.expires_in = 0] : d \in {e \in TokenData : e.access_token # None}}

\* ------------------------------------------ getAccessToken / refreshAccessToken
\* A chrome.storage read takes effect in the step that runs its callback.  A
\* chrome.storage write takes effect in the step that issues it (storage
\* requests are served in the order they are issued); its callback step only
\* learns whether chrome.runtime.lastError was set.
NoTokenData == [access_token |-> None, refresh_token |-> None, expires_in |-> None]

IdleCall == [pc |-> "idle", rt |-> None, resp |-> NoTokenData, wrote |-> FALSE,
             reqs |-> 0, outcome |-> "none", result |-> None, err |-> NoError,
             cause |-> NoError]

\* err is the message the promise rejects with, cause is what went wrong
Settle(call, outcome, result, err, cause) ==
    [IdleCall EXCEPT !.pc = "settled", !.reqs = call.reqs, !.outcome = outcome,
                     !.result = result, !.err = err, !.cause = cause]

ReauthMessage_RefreshError == "No refresh token available"

\* getAccessToken's catch: reject(new Error('Token expired and refresh failed. ...'))
ReauthMessage == "Token expired and refresh failed. Please re-authenticate."

\* getAccessToken() is called: chrome.storage.local.get is issued
GetAccessToken(c) ==
    /\ calls[c].pc = "idle"
    /\ calls' = [calls EXCEPT ![c].pc = "gat_get"]
    /\ UNCHANGED <<build, now, store>>

\* callback of the get in getAccessToken; when the token is not valid any
\* more refreshAccessToken() is called, which issues its own get
GetAccessTokenCallback(c) ==
    /\ calls[c].pc = "gat_get"
    /\ \E lastError \in BOOLEAN :
         IF lastError
         THEN calls' = [calls EXCEPT ![c] = Settle(@, "rejected", None, "lastError", "lastError")]
         ELSE IF StillValid(store.at, store.exp, now)
              THEN calls' = [calls EXCEPT ![c] = Settle(@, "resolved", store.at, NoError, NoError)]
              ELSE calls' = [calls EXCEPT ![c].pc = "ref_get"]
    /\ UNCHANGED <<build, now, store>>

\* callback of the get in refreshAccessToken: no refresh token -> reject,
\* otherwise the refresh_token request is sent to the token endpoint
RefreshCallback(c) ==
    /\ calls[c].pc = "ref_get"
    /\ \E lastError \in BOOLEAN :
         IF lastError \/ ~Truthy(store.rt)
         THEN calls' = [calls EXCEPT ![c] =
                          Settle(@, "rejected", None, ReauthMessage,
                                 IF lastError THEN "lastError" ELSE "noRefreshToken")]
         ELSE calls' = [calls EXCEPT ![c].pc = "ref_fetch", ![c].rt = store.rt,
                                     ![c].reqs = @ + 1]
    /\ UNCHANGED <<build, now, store>>

\* the token endpoint answers the refresh request with one of answers (or
\* the fetch throws); on a 2xx answer storeTokens() issues the write
RefreshResponseOf(c, answers) ==
    /\ calls[c].pc = "ref_fetch"
    /\ \/ /\ \E failure \in {"network", "notOk"} :
               calls' = [calls EXCEPT ![c] = Settle(@, "rejected", None, ReauthMessage, failure)]
          /\ store' = store
       \/ \E tokenData \in answers, lastError \in BOOLEAN :
            /\ calls' = [calls EXCEPT ![c].pc = "ref_set", ![c].resp = tokenData,
                                      ![c].wrote = ~lastError]
            /\ store' = IF lastError THEN store
                        ELSE StorageSet(store, RefreshItems(tokenData, calls[c].rt, now))
    /\ UNCHANGED <<build, now>>

RefreshResponse(c) == RefreshResponseOf(c, RefreshTokenData)

\* callback of chrome.storage.local.set in storeTokens; the current copy goes
\* on to read the tokens back
RefreshStoreCallback(c) ==
    /\ calls[c].pc = "ref_set"
    /\ IF ~calls[c].wrote
       THEN calls' = [calls EXCEPT ![c] = Settle(@, "rejected", None, ReauthMessage, "lastError")]
       ELSE IF build = "current"
            THEN calls' = [calls EXCEPT ![c].pc = "ref_verify",
                                        ![c].result = calls[c].resp.access_token,
                                        ![c].resp = NoTokenData, ![c].rt = None]
            ELSE calls' = [calls EXCEPT ![c] =
                             Settle(@, "resolved", calls[c].resp.access_token, NoError, NoError)]
    /\ UNCHANGED <<build, now, store>>

\* callback of the read-back get in storeTokens (current copy)
RefreshVerifyCallback(c) ==
    /\ calls[c].pc = "ref_verify"
    /\ \E lastError \in BOOLEAN :
         IF lastError \/ ~StoredCorrectly(store)
         THEN calls' = [calls EXCEPT ![c] =
                          Settle(@, "rejected", None, ReauthMessage,
                                 IF lastError THEN "lastError" ELSE "notStored")]
         ELSE calls' = [calls EXCEPT ![c] =
                          Settle(@, "resolved", calls[c].result, NoError, NoError)]
    /\ UNCHANGED <<build, now, store>>

\* the caller has consumed the result; it may call again
CallReturn(c) ==
    /\ calls[c].pc = "settled"
    /\ calls' = [calls EXCEPT ![c] = IdleCall]
    /\ UNCHANGED <<build, now, store>>

Tick ==
    /\ now < MaxTime
    /\ now' = now + 1
    /\ UNCHANGED <<build, store, calls>>

\* ------------------------------------------------ playback (popup and frame)
NoDevice == "none"

\* a command of the popup that has not been given: the Web API requests it
\* sent, the answer to the last one (0: none) and the status text it left
IdleCommand == [pc |-> "idle", action |-> "none", device |-> NoDevice, requests |-> 0,
                response |-> 0, status |-> "none"]
IdleCommands == [c \in 1..MaxCommands |-> IdleCommand]

\* one readiness wait of ensurePlayerReady: its 20 s timeout, its 100 ms
\* polling interval with the 5 s timer that stops it, and its readyHandler;
\* ranLate: a callback of the wait ran its body after the wait had resolved
IdleWait == [pc |-> "idle", result |-> FALSE, timer |-> FALSE, interval |-> FALSE,
             stop |-> FALSE, listener |-> FALSE, ranLate |-> FALSE]
IdleWaits == [w \in PlayCalls |-> IdleWait]

\* the popup's handling of authStatus events: the runs of the 'success'
\* handler in progress (late: started after the 60 s timer had fired), the
\* status text and whether the timer has ever fired
IdleRun == [pc |-> "idle", late |-> FALSE]
IdleAuthUi == [timedOut |-> FALSE, text |-> "none",
               runs |-> [a \in Attempts |-> IdleRun]]
FrameDeviceId == "D1"     \* the device id of the frame's own player
Devices == {FrameDeviceId, "D2"}

\* recommendation lists: entries without spotify_id are not playable
NoTracks == <<[spotify_id |-> None]>>
Tracks(p) == <<[spotify_id |-> p], [spotify_id |-> None]>>

HasSpotifyId(rec) == Truthy(rec.spotify_id)

\* recommendations.filter(rec => rec.spotify_id).map(rec => `spotify:track:${rec.spotify_id}`)
TrackUris(recommendations) ==
    LET eligible == SelectSeq(recommendations, HasSpotifyId)
    IN  [i \in 1..Len(eligible) |-> [scheme |-> "spotify:track", id |-> eligible[i].spotify_id]]

\* the words of the error texts the frame sends that matter to includes()
AuthenticationError == {"Authentication", "failed", "re-authenticating"}
AccountError == {"Spotify", "Premium", "required", "subscription"}
ConnectError == {"Failed", "connect", "Premium", "subscription", "re-authenticating"}
InitializationError == {"Failed", "initialize", "refreshing"}
PlaybackError == {"Playback", "error"}
NoText == {}
ConnectErrors == {AuthenticationError, AccountError, ConnectError, InitializationError}

IsAuthError_NoPremium(errorMsg) ==
    "Authentication" \in errorMsg \/ "Account" \in errorMsg

\* errorMsg.includes('Authentication') || includes('Premium') || includes('Account')
IsAuthError(errorMsg) ==
    "Authentication" \in errorMsg \/ "Premium" \in errorMsg \/ "Account" \in errorMsg

Message(type, deviceId, error) == [type |-> type, device_id |-> deviceId, error |-> error]

IdlePlay == [pc |-> "idle", recs |-> <<>>, unready |-> FALSE, sawReady |-> FALSE]

\* popup state once initializePlayerAuth() has found no credential.  The
\* saved* fields are the spotify_player_device_id / _ready / _ready_timestamp
\* keys of chrome.storage.local
DisconnectedPlayer ==
    [isAuthenticated |-> FALSE, accessToken |-> None, deviceId |-> NoDevice,
     isPlayerReady |-> FALSE, pendingRecommendations |-> None,
     authUIShown |-> TRUE, savedDeviceId |-> NoDevice, savedReady |-> FALSE,
     savedTimestamp |-> None]

\* popup state once initializePlayerAuth() has loaded the token and sent init_player
ConnectingPlayer ==
    [DisconnectedPlayer EXCEPT !.isAuthenticated = TRUE, !.accessToken = store.at,
                               !.authUIShown = FALSE]

IdleFrame == [state |-> "idle", error |-> NoText]
ConnectingFrame == [state |-> "connecting", error |-> NoText]

PlayIdle ==
    /\ player = DisconnectedPlayer
    /\ plays = [p \in PlayCalls |-> IdlePlay]
    /\ cmds = [p \in PlayCalls |-> <<>>]
    /\ frame = IdleFrame
    /\ inbox = <<>>
    /\ readyHandlers = <<>>

\* the playback state as one value, threaded through the handlers
PlayState == [player |-> player, plays |-> plays, cmds |-> cmds, frame |-> frame,
              readyHandlers |-> readyHandlers]

Becomes(st) ==
    /\ player' = st.player
    /\ plays' = st.plays
    /\ cmds' = st.cmds
    /\ frame' = st.frame
    /\ readyHandlers' = st.readyHandlers

SessionReady(st) ==
    st.player.isPlayerReady /\ st.player.deviceId # NoDevice /\ st.player.accessToken # None

Remove(handlers, p) == SelectSeq(handlers, LAMBDA h : h # p)

\* playRecommendations past the readiness check: the PUT to /me/player/play
IssuePlay(st, p) ==
    LET trackUris == TrackUris(st.plays[p].recs)
        done == [st EXCEPT !.plays[p].pc = "done"]
    IN  IF Len(trackUris) = 0 THEN done
        ELSE [done EXCEPT !.cmds[p] =
                 Append(@, [device |-> st.player.deviceId, uris |-> trackUris])]

\* playRecommendations after `await ensurePlayerReady()`
AfterEnsure(st, p, playerReady) ==
    IF ~playerReady \/ ~SessionReady(st)
    THEN [st EXCEPT !.player.pendingRecommendations = p, !.plays[p].pc = "done"]
    ELSE IssuePlay(st, p)

\* ensurePlayerReady once the popup is authenticated: initializePlayer() posts
\* init_player and waits 100 ms, or the function returns its readiness
EnsureInit(st, p) ==
    IF st.player.isAuthenticated /\ st.player.accessToken # None /\ ~st.player.isPlayerReady
    THEN [st EXCEPT !.plays[p].pc = "ens_init", !.frame = ConnectingFrame]
    ELSE AfterEnsure(st, p, SessionReady(st))

\* playRecommendations(recommendations) up to its first await
CallPlay(st, p) ==
    IF SessionReady(st) THEN IssuePlay(st, p)
    ELSE IF ~st.player.isAuthenticated
         THEN [st EXCEPT !.plays[p].pc = "ens_auth"]
         ELSE EnsureInit(st, p)

\* the readyHandler listeners run, each resuming its playRecommendations call
RECURSIVE Resume(_, _, _)
Resume(st, handlers, playerReady) ==
    IF handlers = <<>> THEN st
    ELSE Resume(AfterEnsure([st EXCEPT !.readyHandlers = Remove(@, Head(handlers))],
                            Head(handlers), playerReady),
                Tail(handlers), playerReady)

\* a request is queued: held in the pending slot or by a suspended call
Queued(st, p) ==
    \/ st.player.pendingRecommendations = p
    \/ st.plays[p].pc \notin {"idle", "done"}

\* a playback request reaches playRecommendations
PlayRecommendations(p) ==
    /\ plays[p].pc = "idle"
    /\ \A q \in PlayCalls : q < p => plays[q].pc # "idle"
    /\ \E recs \in {NoTracks, Tracks(p)} :
         LET st == [PlayState EXCEPT !.plays[p].recs = recs,
                                     !.plays[p].unready = ~SessionReady(PlayState)]
         IN  Becomes(CallPlay(st, p))
    /\ UNCHANGED <<build, now, store, inbox>>

\* ensurePlayerReady: callback of the get in SpotifyAuth.isAuthenticated()
EnsureAuthCallback(p) ==
    /\ plays[p].pc = "ens_auth"
    /\ \E lastError \in BOOLEAN :
         IF lastError \/ ~isAuthenticated(store)
         THEN Becomes(AfterEnsure(PlayState, p, FALSE))
         ELSE Becomes([PlayState EXCEPT !.plays[p].pc = "ens_token"])
    /\ UNCHANGED <<build, now, store, inbox>>

\* ensurePlayerReady: loadPlayerAccessToken(), callback of the get in
\* getAccessToken(); the stored token is served while it is still valid
EnsureTokenCallback(p) ==
    /\ plays[p].pc = "ens_token"
    /\ \E lastError \in BOOLEAN :
         IF lastError
         THEN Becomes(AfterEnsure(PlayState, p, FALSE))
         ELSE /\ StillValid(store.at, store.exp, now)
              /\ Becomes(EnsureInit([PlayState EXCEPT !.player.accessToken = store.at,
                                                      !.player.isAuthenticated = TRUE], p))
    /\ UNCHANGED <<build, now, store, inbox>>

\* ensurePlayerReady: initializePlayer() has resolved; the wait for readiness
\* starts with its 20 s timeout, readyHandler and polling interval.  A timer
\* (100 ms, 20 s) expires after the messages already posted have been handled.
InitializePlayerDone(p) ==
    /\ plays[p].pc = "ens_init"
    /\ inbox = <<>>
    /\ IF player.isPlayerReady /\ player.deviceId # NoDevice
       THEN Becomes(AfterEnsure(PlayState, p, TRUE))
       ELSE Becomes([PlayState EXCEPT !.plays[p].pc = "waiting",
                                      !.readyHandlers = Append(@, p)])
    /\ UNCHANGED <<build, now, store, inbox>>

\* ensurePlayerReady: the polling interval sees the player ready
Poll(p) ==
    /\ plays[p].pc = "waiting"
    /\ inbox = <<>>
    /\ player.isPlayerReady /\ player.deviceId # NoDevice
    /\ Becomes(AfterEnsure([PlayState EXCEPT !.readyHandlers = Remove(@, p)], p, TRUE))
    /\ UNCHANGED <<build, now, store, inbox>>

\* ensurePlayerReady: the 20 s timeout removes readyHandler and asks the Web
\* API for the devices
ReadyTimeout(p) ==
    /\ plays[p].pc = "waiting"
    /\ inbox = <<>>
    /\ Becomes([PlayState EXCEPT !.plays[p].pc = "fallback",
                                 !.readyHandlers = Remove(@, p)])
    /\ UNCHANGED <<build, now, store, inbox>>

\* ensurePlayerReady: getSpotifyDevices() answers with a device id or null
FallbackResponse(p) ==
    /\ plays[p].pc = "fallback"
    /\ \E fallbackDeviceId \in Devices \cup {NoDevice} :
         IF fallbackDeviceId # NoDevice
         THEN Becomes(AfterEnsure([PlayState EXCEPT
                                     !.player.deviceId = fallbackDeviceId,
                                     !.player.isPlayerReady = TRUE,
                                     !.player.savedDeviceId = fallbackDeviceId,
                                     !.player.savedReady = TRUE,
                                     !.player.savedTimestamp = now], p, TRUE))
         ELSE Becomes(AfterEnsure(PlayState, p, FALSE))
    /\ UNCHANGED <<build, now, store, inbox>>

\* ---------------------------------------------- authenticate() and the relay
\* The code verifier is 'id' random bytes put through h = 0 digests; the code
\* challenge is the SHA-256 digest of the verifier (h = 1).  The authorization
\* code handed to an attempt's launchWebAuthFlow callback is the one issued for
\* that attempt's authorization URL, so a code is named by its attempt.
Verifier(a) == [h |-> 0, id |-> a]

generateCodeChallenge(codeVerifier) == [h |-> codeVerifier.h + 1, id |-> codeVerifier.id]

NoValue == [h |-> 0, id |-> 0]
NoRequest == [code |-> 0, code_verifier |-> NoValue]

ExchangeRequest_SendsChallenge(att, authCode) ==
    [code |-> authCode, code_verifier |-> att.codeChallenge]

\* exchangeCodeForTokens(authCode, codeVerifier): the form body of the POST
ExchangeRequest(att, authCode) ==
    [code |-> authCode, code_verifier |-> att.codeVerifier]

IdleAttempt == [pc |-> "idle", codeVerifier |-> NoValue, codeChallenge |-> NoValue,
                urlChallenge |-> NoValue, req |-> NoRequest,
                gotTokenData |-> FALSE, complete |-> FALSE, wrote |-> FALSE,
                outcome |-> "none", err |-> NoError,
                status |-> "none", response |-> "none", events |-> <<>>]

ClosedPopup == [open |-> FALSE, disabled |-> FALSE, timer |-> FALSE]
OpenedPopup == [open |-> TRUE, disabled |-> FALSE, timer |-> FALSE]

AuthIdle ==
    /\ attempts = [a \in Attempts |-> IdleAttempt]
    /\ popup = OpenedPopup
    /\ authRequests = 0

\* an authenticate() flow is between its call and its settlement
Running(a) == attempts[a].pc \in {"digest", "consent", "exchanging", "set", "verify", "auth_check"}

\* the popup reacts to a terminal authStatus event / a failed sendResponse:
\* clearTimeout(authTimeoutId) and the button is enabled again
PopupAfterTerminal == IF popup.open THEN OpenedPopup ELSE popup

Deliver_Throws(att, open) ==
    IF open THEN att
    ELSE [att EXCEPT !.pc = "done", !.status = "error", !.err = "noReceiver",
                     !.response = "fail"]

\* chrome.runtime.sendMessage({action: 'authStatus', ...}).catch(() => {}):
\* with no popup open the returned promise rejects, the empty catch handler
\* swallows the rejection and the relay goes on as if the event had arrived
Deliver(att, open) == att

\* events lists, in the order the relay makes the calls, the authStatus
\* events it sends with chrome.runtime.sendMessage and its sendResponse
Reject_Silent(att, err) ==
    [att EXCEPT !.pc = "done", !.outcome = "rejected", !.err = err,
                !.response = "fail", !.events = @ \o <<"sendResponse">>]

\* authenticate() rejects: the relay's catch sends status 'error' and
\* sendResponse({success: false})
Reject(att, err) ==
    [att EXCEPT !.pc = "done", !.outcome = "rejected", !.err = err,
                !.status = "error", !.response = "fail",
                !.events = @ \o <<"error", "sendResponse">>]

\* popup.js authButton click: the button is disabled, the 60 s timer is armed
\* and {action: 'authenticate'} is sent
ClickAuthButton ==
    /\ popup.open /\ ~popup.disabled
    /\ authRequests < MaxAttempts - Cardinality({a \in Attempts : attempts[a].pc # "idle"})
    /\ popup' = [popup EXCEPT !.disabled = TRUE, !.timer = TRUE]
    /\ authRequests' = authRequests + 1
    /\ UNCHANGED <<build, now, store, attempts>>

\* the 60 s timer fires, long after the click's message has reached the
\* background: 'Authentication timeout', button enabled again
AuthTimeout ==
    /\ popup.open /\ popup.timer
    /\ authRequests = 0
    /\ popup' = [popup EXCEPT !.disabled = FALSE, !.timer = FALSE]
    /\ UNCHANGED <<build, now, store, attempts, authRequests>>

PopupClose ==
    /\ popup.open
    /\ popup' = ClosedPopup
    /\ UNCHANGED <<build, now, store, attempts, authRequests>>

PopupOpen ==
    /\ ~popup.open
    /\ popup' = OpenedPopup
    /\ UNCHANGED <<build, now, store, attempts, authRequests>>

\* background onMessage 'authenticate': status 'authenticating' is sent and
\* SpotifyAuth.authenticate() runs up to its await of generateCodeChallenge
RelayOnAuthenticate(a) ==
    /\ authRequests > 0
    /\ attempts[a].pc = "idle"
    /\ \A b \in Attempts : b < a => attempts[b].pc # "idle"
    /\ authRequests' = authRequests - 1
    /\ attempts' = [attempts EXCEPT ![a] =
                        Deliver([@ EXCEPT !.pc = "digest", !.status = "authenticating",
                                          !.events = <<"authenticating">>,
                                          !.codeVerifier = Verifier(a)], popup.open)]
    /\ UNCHANGED <<build, now, store, popup>>

AuthLaunch_StoresVerifier(a) ==
    /\ attempts[a].pc = "digest"
    /\ LET codeChallenge == generateCodeChallenge(attempts[a].codeVerifier)
       IN  attempts' = [attempts EXCEPT ![a].pc = "consent",
                                        ![a].codeChallenge = codeChallenge,
                                        ![a].urlChallenge = codeChallenge]
    /\ store' = [store EXCEPT !.cv = attempts[a].codeVerifier.id]
    /\ UNCHANGED <<build, now, popup, authRequests>>

\* the digest is ready: buildAuthUrl(codeChallenge), launchWebAuthFlow
AuthLaunch(a) ==
    /\ attempts[a].pc = "digest"
    /\ LET codeChallenge == generateCodeChallenge(attempts[a].codeVerifier)
       IN  attempts' = [attempts EXCEPT ![a].pc = "consent",
                                        ![a].codeChallenge = codeChallenge,
                                        ![a].urlChallenge = codeChallenge]
    /\ UNCHANGED <<build, now, store, popup, authRequests>>

ConsentFailures == {"identityError", "cancelled", "noCode"}

AuthCallback_ExchangesFirst(a) ==
    /\ attempts[a].pc = "consent"
    /\ \/ /\ \E failure \in ConsentFailures :
               attempts' = [attempts EXCEPT ![a] =
                              Deliver(Reject([@ EXCEPT !.req = ExchangeRequest(attempts[a], a)],
                                             failure), popup.open)]
          /\ popup' = PopupAfterTerminal
       \/ /\ attempts' = [attempts EXCEPT ![a].pc = "exchanging",
                                          ![a].req = ExchangeRequest(attempts[a], a)]
          /\ popup' = popup
    /\ UNCHANGED <<build, now, store, authRequests>>

\* callback of launchWebAuthFlow: lastError, no redirect URL, a redirect URL
\* without code, or a code, which is exchanged at once
AuthCallback(a) ==
    /\ attempts[a].pc = "consent"
    /\ \/ /\ \E failure \in ConsentFailures :
               attempts' = [attempts EXCEPT ![a] = Deliver(Reject(@, failure), popup.open)]
          /\ popup' = PopupAfterTerminal
       \/ /\ attempts' = [attempts EXCEPT ![a].pc = "exchanging",
                                          ![a].req = ExchangeRequest(attempts[a], a)]
          /\ popup' = popup
    /\ UNCHANGED <<build, now, store, authRequests>>

\* the token endpoint answers the code exchange; the current copy rejects an
\* incomplete answer, then storeTokens() issues the write
ExchangeResponse(a) ==
    /\ attempts[a].pc = "exchanging"
    /\ \/ /\ \E failure \in {"network", "notOk"} :
               attempts' = [attempts EXCEPT ![a] = Deliver(Reject(@, failure), popup.open)]
          /\ popup' = PopupAfterTerminal
          /\ store' = store
       \/ \E tokenData \in TokenData, lastError \in BOOLEAN :
            LET complete == Truthy(tokenData.access_token) /\ Truthy(tokenData.refresh_token)
                seen == [attempts[a] EXCEPT !.gotTokenData = TRUE, !.complete = complete]
            IN  IF build = "current" /\ ~complete
                THEN /\ attempts' = [attempts EXCEPT ![a] = Deliver(Reject(seen, "incomplete"), popup.open)]
                     /\ popup' = PopupAfterTerminal
                     /\ store' = store
                ELSE /\ attempts' = [attempts EXCEPT ![a] =
                                        [seen EXCEPT !.pc = "set", !.wrote = ~lastError]]
                     /\ popup' = popup
                     /\ store' = IF lastError THEN store
                                 ELSE StorageSet(store,
                                        StoreItems(tokenData.access_token,
                                                   tokenData.refresh_token,
                                                   tokenData.expires_in, now))
    /\ UNCHANGED <<build, now, authRequests>>

\* authenticate() resolves: the relay goes on to its own isAuthenticated()
Resolve(att) == [att EXCEPT !.pc = "relay_check", !.outcome = "resolved"]

\* callback of the set in storeTokens
AuthStoreCallback(a) ==
    /\ attempts[a].pc = "set"
    /\ IF ~attempts[a].wrote
       THEN /\ attempts' = [attempts EXCEPT ![a] = Deliver(Reject(@, "lastError"), popup.open)]
            /\ popup' = PopupAfterTerminal
       ELSE /\ attempts' = [attempts EXCEPT ![a] =
                               IF build = "current" THEN [@ EXCEPT !.pc = "verify"]
                               ELSE Resolve(@)]
            /\ popup' = popup
    /\ UNCHANGED <<build, now, store, authRequests>>

\* callback of the read-back get in storeTokens (current copy); authenticate()
\* then calls isAuthenticated()
AuthVerifyCallback(a) ==
    /\ attempts[a].pc = "verify"
    /\ \E lastError \in BOOLEAN :
         IF lastError \/ ~StoredCorrectly(store)
         THEN /\ attempts' = [attempts EXCEPT ![a] =
                                 Deliver(Reject(@, IF lastError THEN "lastError"
                                                   ELSE "notStored"), popup.open)]
              /\ popup' = PopupAfterTerminal
         ELSE /\ attempts' = [attempts EXCEPT ![a].pc = "auth_check"]
              /\ popup' = popup
    /\ UNCHANGED <<build, now, store, authRequests>>

\* callback of the get in isAuthenticated() called by authenticate() (current copy)
AuthCheckCallback(a) ==
    /\ attempts[a].pc = "auth_check"
    /\ \E lastError \in BOOLEAN :
         IF lastError \/ ~isAuthenticated(store)
         THEN /\ attempts' = [attempts EXCEPT ![a] = Deliver(Reject(@, "notVerified"), popup.open)]
              /\ popup' = PopupAfterTerminal
         ELSE /\ attempts' = [attempts EXCEPT ![a] = Resolve(@)]
              /\ popup' = popup
    /\ UNCHANGED <<build, now, store, authRequests>>

RelayFinish_NoCheck(att, isAuth) ==
    [att EXCEPT !.pc = "done", !.status = "success", !.response = "ok",
                !.events = @ \o <<"success", "sendResponse">>]

\* the relay after its own isAuthenticated(): 'Authentication verification
\* failed' is thrown into the catch branch, or status 'success' is sent and
\* then sendResponse({success: true})
RelayFinish(att, isAuth) ==
    IF ~isAuth
    THEN [att EXCEPT !.pc = "done", !.err = "relayNotVerified",
                     !.status = "error", !.response = "fail",
                     !.events = @ \o <<"error", "sendResponse">>]
    ELSE [att EXCEPT !.pc = "done", !.status = "success", !.response = "ok",
                     !.events = @ \o <<"success", "sendResponse">>]

\* callback of the get in the relay's isAuthenticated()
RelayCheckCallback(a) ==
    /\ attempts[a].pc = "relay_check"
    /\ \E lastError \in BOOLEAN :
         attempts' = [attempts EXCEPT ![a] =
                         Deliver(RelayFinish(@, ~lastError /\ isAuthenticated(store)),
                                 popup.open)]
    /\ popup' = PopupAfterTerminal
    /\ UNCHANGED <<build, now, store, authRequests>>

AuthInit ==
    /\ build \in Builds
    /\ now = 0
    /\ store = EmptyStore
    /\ calls = [c \in Callers |-> IdleCall]
    /\ AuthIdle
    /\ PlayIdle
    /\ pkce = IdlePkce
    /\ api = IdleApi
    /\ sandbox = IdleSandbox
    /\ popupInit = IdlePopupInit
    /\ missed = {}
    /\ lookup = IdleLookup
    /\ pend = IdlePending
    /\ ctl = IdleCommands
    /\ authUi = IdleAuthUi
    /\ waits = IdleWaits
    /\ deviceSource = "none"
    /\ tokenChanges = 0

AuthNext ==
  /\ UNCHANGED <<tokenState, playState, pkceState, apiState, sandboxState, reopenState, lookupState, pendState, ctlState, authUiState, waitState, sourceState, changeState>>
  /\
    \/ ClickAuthButton
    \/ AuthTimeout
    \/ PopupClose
    \/ PopupOpen
    \/ \E a \in Attempts : RelayOnAuthenticate(a)
    \/ \E a \in Attempts : AuthLaunch(a)
    \/ \E a \in Attempts : AuthCallback(a)
    \/ \E a \in Attempts : ExchangeResponse(a)
    \/ \E a \in Attempts : AuthStoreCallback(a)
    \/ \E a \in Attempts : AuthVerifyCallback(a)
    \/ \E a \in Attempts : AuthCheckCallback(a)
    \/ \E a \in Attempts : RelayCheckCallback(a)

SpecAuth == AuthInit /\ [][AuthNext]_vars

\* window 'message' listener, DEVICE_ID / PLAYER_READY: the device is recorded
\* and saved, a pending request is played
OnPlayerReady(st, message) ==
    LET ready == [st EXCEPT !.player.deviceId = message.device_id,
                            !.player.isPlayerReady = TRUE,
                            !.player.savedDeviceId = message.device_id,
                            !.player.savedReady = TRUE,
                            !.player.savedTimestamp = now,
                            !.plays = [p \in PlayCalls |->
                                         [st.plays[p] EXCEPT !.sawReady = @ \/ Queued(st, p)]]]
        recsToPlay == st.player.pendingRecommendations
    IN  IF recsToPlay # None
        THEN CallPlay([ready EXCEPT !.player.pendingRecommendations = None], recsToPlay)
        ELSE ready

\* window 'message' listener, PLAYER_ERROR
OnPlayerError(st, message) ==
    IF IsAuthError(message.error)
    THEN [st EXCEPT !.player.authUIShown = TRUE, !.player.isAuthenticated = FALSE]
    ELSE st

\* window 'message' listener, NOT_AUTHENTICATED: showAuthUI, clearPlayerState
OnNotAuthenticated(st) ==
    [st EXCEPT !.player.authUIShown = TRUE, !.player.isAuthenticated = FALSE,
               !.player.deviceId = NoDevice, !.player.isPlayerReady = FALSE,
               !.player.savedDeviceId = NoDevice, !.player.savedReady = FALSE,
               !.player.savedTimestamp = None]

\* the popup handles the next message of the frame: first the window
\* listener, then the readyHandler of every call that waits
HandleMessage ==
    /\ inbox # <<>>
    /\ LET message == Head(inbox)
       IN  /\ inbox' = Tail(inbox)
           /\ IF message.type \in {"device_id", "player_ready"}
              THEN Becomes(Resume(OnPlayerReady(PlayState, message), readyHandlers, TRUE))
              ELSE IF message.type = "player_error"
              THEN Becomes(Resume(OnPlayerError(PlayState, message), readyHandlers, FALSE))
              ELSE Becomes(OnNotAuthenticated(PlayState))
    /\ UNCHANGED <<build, now, store>>

\* sandbox 'ready' listener: DEVICE_ID and PLAYER_READY, both with the device id
FrameReady ==
    /\ frame.state = "connecting" /\ inbox = <<>>
    /\ frame' = [frame EXCEPT !.state = "ready"]
    /\ inbox' = <<Message("device_id", FrameDeviceId, NoText),
                  Message("player_ready", FrameDeviceId, NoText)>>
    /\ UNCHANGED <<build, now, store, player, plays, cmds, readyHandlers>>

\* sandbox: the connection fails; one PLAYER_ERROR is sent (errorSent)
FrameError ==
    /\ frame.state = "connecting" /\ inbox = <<>>
    /\ \E error \in ConnectErrors :
         /\ frame' = [state |-> "failed", error |-> error]
         /\ inbox' = <<Message("player_error", NoDevice, error)>>
    /\ UNCHANGED <<build, now, store, player, plays, cmds, readyHandlers>>

\* sandbox 'playback_error' listener
FramePlaybackError ==
    /\ frame.state = "ready" /\ inbox = <<>>
    /\ frame' = [frame EXCEPT !.error = PlaybackError]
    /\ inbox' = <<Message("player_error", NoDevice, PlaybackError)>>
    /\ UNCHANGED <<build, now, store, player, plays, cmds, readyHandlers>>

\* sandbox 'not_ready' listener: the device went offline
FrameNotReady ==
    /\ frame.state = "ready" /\ inbox = <<>>
    /\ frame' = ConnectingFrame
    /\ inbox' = <<Message("not_authenticated", FrameDeviceId, NoText)>>
    /\ UNCHANGED <<build, now, store, player, plays, cmds, readyHandlers>>

\* a credential that stays valid while the popup is open
ValidCredential == [at |-> 1, rt |-> 1, exp |-> 7, cv |-> None]

PlayInit ==
    /\ build = "current"
    /\ now = 0
    /\ calls = [c \in Callers |-> IdleCall]
    /\ attempts = [a \in Attempts |-> IdleAttempt]
    /\ popup = OpenedPopup
    /\ authRequests = 0
    /\ plays = [p \in PlayCalls |-> IdlePlay]
    /\ cmds = [p \in PlayCalls |-> <<>>]
    /\ inbox = <<>>
    /\ readyHandlers = <<>>
    /\ pkce = IdlePkce
    /\ api = IdleApi
    /\ sandbox = IdleSandbox
    /\ popupInit = IdlePopupInit
    /\ missed = {}
    /\ lookup = IdleLookup
    /\ pend = IdlePending
    /\ ctl = IdleCommands
    /\ authUi = IdleAuthUi
    /\ waits = IdleWaits
    /\ deviceSource = "none"
    /\ tokenChanges = 0
    /\ \/ store = EmptyStore /\ player = DisconnectedPlayer /\ frame = IdleFrame
       \/ store = ValidCredential /\ player = ConnectingPlayer /\ frame = ConnectingFrame

PlayNext ==
  /\ UNCHANGED <<tokenState, authState, pkceState, apiState, sandboxState, reopenState, lookupState, pendState, ctlState, authUiState, waitState, sourceState, changeState>>
  /\
    \/ HandleMessage
    \/ FrameReady
    \/ FrameError
    \/ FramePlaybackError
    \/ FrameNotReady
    \/ \E p \in PlayCalls : PlayRecommendations(p)
    \/ \E p \in PlayCalls : EnsureAuthCallback(p)
    \/ \E p \in PlayCalls : EnsureTokenCallback(p)
    \/ \E p \in PlayCalls : InitializePlayerDone(p)
    \/ \E p \in PlayCalls : Poll(p)
    \/ \E p \in PlayCalls : ReadyTimeout(p)
    \/ \E p \in PlayCalls : FallbackResponse(p)

SpecPlay == PlayInit /\ [][PlayNext]_vars

\* ------------------------------------------------------ generateCodeVerifier
\* The verifier is built from random bytes: the current copy encodes 32 bytes
\* with btoa and makes the result URL-safe, the legacy copy writes 96 bytes as
\* hexadecimal.  The model encodes the bytes group by group and keeps the
\* length of the text and the set of characters that occur in it.
SampleBytes == {0, 251, 255}

Base64Alphabet ==
    <<"A", "B", "C", "D", "E", "F", "G", "H", "I", "J", "K", "L", "M",
      "N", "O", "P", "Q", "R", "S", "T", "U", "V", "W", "X", "Y", "Z",
      "a", "b", "c", "d", "e", "f", "g", "h", "i", "j", "k", "l", "m",
      "n", "o", "p", "q", "r", "s", "t", "u", "v", "w", "x", "y", "z",
      "0", "1", "2", "3", "4", "5", "6", "7", "8", "9", "+", "/">>

HexDigits ==
    <<"0", "1", "2", "3", "4", "5", "6", "7", "8", "9", "a", "b", "c", "d", "e", "f">>

\* new Uint8Array(n)
ArrayLength(b) == IF b = "current" THEN 32 ELSE 96

\* btoa on a group of three bytes: four characters
Btoa3(b1, b2, b3) ==
    LET v == b1 * 65536 + b2 * 256 + b3
    IN  {Base64Alphabet[(v \div 262144) + 1], Base64Alphabet[((v \div 4096) % 64) + 1],
         Base64Alphabet[((v \div 64) % 64) + 1], Base64Alphabet[(v % 64) + 1]}

\* btoa on a last group of two bytes: three characters and one "="
Btoa2(b1, b2) ==
    LET v == b1 * 65536 + b2 * 256
    IN  {Base64Alphabet[(v \div 262144) + 1], Base64Alphabet[((v \div 4096) % 64) + 1],
         Base64Alphabet[((v \div 64) % 64) + 1], "="}

\* btoa on a last group of one byte: two characters and "=="
Btoa1(b1) ==
    LET v == b1 * 65536
    IN  {Base64Alphabet[(v \div 262144) + 1], Base64Alphabet[((v \div 4096) % 64) + 1], "="}

\* ('0' + byte.toString(16)).slice(-2)
Hex(byte) == {HexDigits[(byte \div 16) + 1], HexDigits[(byte % 16) + 1]}

\* .replace(/\+/g, '-').replace(/\//g, '_').replace(/=+$/, '') on one character
UrlSafe(chars) ==
    {IF ch = "+" THEN "-" ELSE IF ch = "/" THEN "_" ELSE ch : ch \in chars \ {"="}}

\* generateCodeVerifier(): the array is allocated and filled
GenerateCodeVerifier ==
    /\ pkce.pc = "idle"
    /\ pkce' = [IdlePkce EXCEPT !.pc = "encoding", !.remaining = ArrayLength(build)]
    /\ UNCHANGED <<build, now, store>>

\* btoa(String.fromCharCode(...array)), three bytes at a time
EncodeBase64 ==
    /\ pkce.pc = "encoding" /\ build = "current" /\ pkce.remaining > 0
    /\ \E b1, b2, b3 \in SampleBytes :
         IF pkce.remaining >= 3
         THEN pkce' = [pkce EXCEPT !.remaining = @ - 3, !.length = @ + 4,
                                   !.chars = @ \cup Btoa3(b1, b2, b3)]
         ELSE IF pkce.remaining = 2
         THEN pkce' = [pkce EXCEPT !.remaining = 0, !.length = @ + 4, !.padding = 1,
                                   !.chars = @ \cup Btoa2(b1, b2)]
         ELSE pkce' = [pkce EXCEPT !.remaining = 0, !.length = @ + 4, !.padding = 2,
                                   !.chars = @ \cup Btoa1(b1)]
    /\ UNCHANGED <<build, now, store>>

\* Array.from(array, byte => hex).join(''), one byte at a time
EncodeHex ==
    /\ pkce.pc = "encoding" /\ build = "legacy" /\ pkce.remaining > 0
    /\ \E byte \in SampleBytes :
         pkce' = [pkce EXCEPT !.remaining = @ - 1, !.length = @ + 2,
                              !.chars = @ \cup Hex(byte)]
    /\ UNCHANGED <<build, now, store>>

\* the verifier is returned; the current copy makes it URL-safe and strips "="
ReturnVerifier ==
    /\ pkce.pc = "encoding" /\ pkce.remaining = 0
    /\ pkce' = IF build = "current"
               THEN [pkce EXCEPT !.pc = "done", !.length = @ - pkce.padding,
                                 !.padding = 0, !.chars = UrlSafe(@)]
               ELSE [pkce EXCEPT !.pc = "done"]
    /\ UNCHANGED <<build, now, store>>

\* the next attempt generates another verifier
NextVerifier ==
    /\ pkce.pc = "done"
    /\ pkce' = IdlePkce
    /\ UNCHANGED <<build, now, store>>

PkceInit ==
    /\ build \in Builds
    /\ now = 0
    /\ store = EmptyStore
    /\ calls = [c \in Callers |-> IdleCall]
    /\ AuthIdle
    /\ PlayIdle
    /\ pkce = IdlePkce
    /\ api = IdleApi
    /\ sandbox = IdleSandbox
    /\ popupInit = IdlePopupInit
    /\ missed = {}
    /\ lookup = IdleLookup
    /\ pend = IdlePending
    /\ ctl = IdleCommands
    /\ authUi = IdleAuthUi
    /\ waits = IdleWaits
    /\ deviceSource = "none"
    /\ tokenChanges = 0

PkceNext ==
  /\ UNCHANGED <<tokenState, authState, playState, apiState, sandboxState, reopenState, lookupState, pendState, ctlState, authUiState, waitState, sourceState, changeState>>
  /\
    \/ GenerateCodeVerifier
    \/ EncodeBase64
    \/ EncodeHex
    \/ ReturnVerifier
    \/ NextVerifier

SpecPkce == PkceInit /\ [][PkceNext]_vars

\* a credential left in storage by an earlier session
StoredCredentials ==
    {EmptyStore} \cup {[at |-> t, rt |-> t, exp |-> e, cv |-> None] : t \in Tokens, e \in {1, 7}}

TokenInit ==
    /\ build \in Builds
    /\ now = 0
    /\ store \in StoredCredentials
    /\ calls = [c \in Callers |-> IdleCall]
    /\ AuthIdle
    /\ PlayIdle
    /\ pkce = IdlePkce
    /\ api = IdleApi
    /\ sandbox = IdleSandbox
    /\ popupInit = IdlePopupInit
    /\ missed = {}
    /\ lookup = IdleLookup
    /\ pend = IdlePending
    /\ ctl = IdleCommands
    /\ authUi = IdleAuthUi
    /\ waits = IdleWaits
    /\ deviceSource = "none"
    /\ tokenChanges = 0

TokenNext ==
  /\ UNCHANGED <<authState, playState, pkceState, apiState, sandboxState, reopenState, lookupState, pendState, ctlState, authUiState, waitState, sourceState, changeState>>
  /\
    \/ Tick
    \/ \E c \in Callers : GetAccessToken(c)
    \/ \E c \in Callers : GetAccessTokenCallback(c)
    \/ \E c \in Callers : RefreshCallback(c)
    \/ \E c \in Callers : RefreshResponse(c)
    \/ \E c \in Callers : RefreshStoreCallback(c)
    \/ \E c \in Callers : RefreshVerifyCallback(c)
    \/ \E c \in Callers : CallReturn(c)

SpecToken == TokenInit /\ [][TokenNext]_vars

\* ------------------------------------------- isAuthenticated() / clearTokens()
\* the keys clearTokens passes to chrome.storage.local.remove; nothing ever
\* writes spotify_code_verifier, the verifier lives in authenticate()'s closure
ClearedKeys == {"at", "rt", "exp", "code_verifier"}

StorageRemove_OnlyAccess(s, keys) ==
    [s EXCEPT !.at = IF "at" \in keys THEN None ELSE @]

\* chrome.storage.local.remove(keys)
StorageRemove(s, keys) ==
    [at  |-> IF "at"  \in keys THEN None ELSE s.at,
     rt  |-> IF "rt"  \in keys THEN None ELSE s.rt,
     exp |-> IF "exp" \in keys THEN None ELSE s.exp,
     cv  |-> IF "code_verifier" \in keys THEN None ELSE s.cv]

\* isAuthenticated() is called: chrome.storage.local.get is issued
IsAuthenticated ==
    /\ api.pc = "idle"
    /\ api' = [IdleApi EXCEPT !.op = "isAuthenticated", !.pc = "get"]
    /\ UNCHANGED <<build, now, store>>

\* callback of the get in isAuthenticated: resolve(false) on lastError,
\* otherwise resolve(!!(access && refresh))
IsAuthenticatedCallback ==
    /\ api.op = "isAuthenticated" /\ api.pc = "get"
    /\ \E lastError \in BOOLEAN :
         api' = [api EXCEPT !.pc = "settled", !.outcome = "resolved",
                            !.result = IF lastError THEN FALSE ELSE isAuthenticated(store),
                            !.cause = IF lastError THEN "lastError" ELSE NoError]
    /\ UNCHANGED <<build, now, store>>

\* clearTokens() is called: chrome.storage.local.remove is issued
ClearTokens ==
    /\ api.pc = "idle"
    /\ \E lastError \in BOOLEAN :
         /\ api' = [IdleApi EXCEPT !.op = "clearTokens", !.pc = "remove",
                                   !.wrote = ~lastError,
                                   !.onEmpty = (store = EmptyStore)]
         /\ store' = IF lastError THEN store ELSE StorageRemove(store, ClearedKeys)
    /\ UNCHANGED <<build, now>>

\* callback of the remove in clearTokens: reject on lastError, else resolve()
ClearTokensCallback ==
    /\ api.op = "clearTokens" /\ api.pc = "remove"
    /\ api' = [api EXCEPT !.pc = "settled",
                          !.outcome = IF api.wrote THEN "resolved" ELSE "rejected",
                          !.cause = IF api.wrote THEN NoError ELSE "lastError",
                          !.inflight = IF api.wrote
                                       THEN {a \in Attempts :
                                               attempts[a].pc \in {"consent", "exchanging"}}
                                       ELSE {}]
    /\ UNCHANGED <<build, now, store>>

\* the caller has consumed the result; it may call again
ApiReturn ==
    /\ api.pc = "settled"
    /\ api' = IdleApi
    /\ UNCHANGED <<build, now, store>>

\* what chrome.storage may hold when the module is loaded: nothing, or what
\* an earlier storeTokens() left (the legacy copy stores an exchange answer
\* as it came; a missing expires_in is stored as null)
StoredValues ==
    {EmptyStore} \cup
    {[at |-> a, rt |-> r, exp |-> e, cv |-> None] :
        a \in Tokens \cup {None}, r \in Tokens \cup {None}, e \in {NaN, 1, 7}}

StoreInit ==
    /\ build \in Builds
    /\ now = 0
    /\ store \in StoredValues
    /\ calls = [c \in Callers |-> IdleCall]
    /\ AuthIdle
    /\ PlayIdle
    /\ pkce = IdlePkce
    /\ api = IdleApi
    /\ sandbox = IdleSandbox
    /\ popupInit = IdlePopupInit
    /\ missed = {}
    /\ lookup = IdleLookup
    /\ pend = IdlePending
    /\ ctl = IdleCommands
    /\ authUi = IdleAuthUi
    /\ waits = IdleWaits
    /\ deviceSource = "none"
    /\ tokenChanges = 0

StoreNext ==
  /\ UNCHANGED <<authState, playState, pkceState, sandboxState, reopenState, lookupState, pendState, ctlState, authUiState, waitState, sourceState, changeState>>
  /\
    \/ Tick /\ UNCHANGED api
    \/ IsAuthenticated /\ UNCHANGED calls
    \/ IsAuthenticatedCallback /\ UNCHANGED calls
    \/ ClearTokens /\ UNCHANGED calls
    \/ ClearTokensCallback /\ UNCHANGED calls
    \/ ApiReturn /\ UNCHANGED calls

SpecStore == StoreInit /\ [][StoreNext]_vars

\* ------------------------------------------ clearTokens() during authenticate()
\* clearTokens() is exported by the auth module and may be called at any time,
\* also while the relay runs authenticate().  One 'authenticate' request has
\* been sent by the popup's button and is the only one.
ClickedPopup == [open |-> TRUE, disabled |-> TRUE, timer |-> TRUE]

LogoutInit ==
    /\ build \in Builds
    /\ now = 0
    /\ store \in {EmptyStore, ValidCredential}
    /\ calls = [c \in Callers |-> IdleCall]
    /\ attempts = [a \in Attempts |-> IdleAttempt]
    /\ popup = ClickedPopup
    /\ authRequests = 1
    /\ PlayIdle
    /\ pkce = IdlePkce
    /\ api = IdleApi
    /\ sandbox = IdleSandbox
    /\ popupInit = IdlePopupInit
    /\ missed = {}
    /\ lookup = IdleLookup
    /\ pend = IdlePending
    /\ ctl = IdleCommands
    /\ authUi = IdleAuthUi
    /\ waits = IdleWaits
    /\ deviceSource = "none"
    /\ tokenChanges = 0

LogoutNext ==
    \/ /\ UNCHANGED <<tokenState, playState, pkceState, apiState, sandboxState, reopenState, lookupState, pendState, ctlState, authUiState, waitState, sourceState, changeState>>
       /\ \/ \E a \in Attempts : RelayOnAuthenticate(a)
          \/ \E a \in Attempts : AuthLaunch(a)
          \/ \E a \in Attempts : AuthCallback(a)
          \/ \E a \in Attempts : ExchangeResponse(a)
          \/ \E a \in Attempts : AuthStoreCallback(a)
          \/ \E a \in Attempts : AuthVerifyCallback(a)
          \/ \E a \in Attempts : AuthCheckCallback(a)
          \/ \E a \in Attempts : RelayCheckCallback(a)
    \/ /\ UNCHANGED <<tokenState, authState, playState, pkceState, sandboxState, reopenState, lookupState, pendState, ctlState, authUiState, waitState, sourceState, changeState>>
       /\ \/ ClearTokens
          \/ ClearTokensCallback
          \/ ApiReturn

SpecLogout == LogoutInit /\ [][LogoutNext]_vars

\* ------------------------------------- popup closed and reopened during OAuth
\* The popup page is gone while it is closed: its variables, its pending
\* promises and the sandbox frame inside it.  A popup that opens starts with
\* the page's initial values and runs initializePlayerAuth() from its
\* DOMContentLoaded handler.  One 'authenticate' request has been sent by the
\* button of the first popup; no player state was saved by it.
PopupCaller == 1

\* whether the page shows the authentication UI before any script has run is
\* decided by the popup's markup
FreshPlayers(pl) ==
    {[DisconnectedPlayer EXCEPT !.authUIShown = shown,
                                !.savedDeviceId = pl.savedDeviceId,
                                !.savedReady = pl.savedReady,
                                !.savedTimestamp = pl.savedTimestamp] : shown \in BOOLEAN}

\* errorMsg.includes('re-authenticate') || errorMsg.includes('expired'); of the
\* messages getAccessToken() rejects with, the re-authentication one has both
NeedsReauth(errorMsg) == errorMsg = ReauthMessage

\* the status events of attempt a that this step of the relay sent to nobody
Missed(a) ==
    IF ~popup.open /\ attempts'[a].status # attempts[a].status
    THEN missed \cup {attempts'[a].status}
    ELSE missed

ClosePopupPage ==
    /\ PopupClose
    /\ popupInit' = IdlePopupInit
    /\ calls' = [c \in Callers |-> IdleCall]
    /\ player' \in FreshPlayers(player) /\ player'.authUIShown
    /\ frame' = IdleFrame
    /\ UNCHANGED <<plays, cmds, inbox, readyHandlers, pkceState, apiState,
                   sandboxState, missed, lookupState, pendState, ctlState, authUiState, waitState, sourceState, changeState>>

\* DOMContentLoaded: initializePlayerAuth() is called and restorePlayerState()
\* issues its chrome.storage.local.get
OpenPopupPage ==
    /\ PopupOpen
    /\ player' \in FreshPlayers(player)
    /\ popupInit' = [IdlePopupInit EXCEPT !.pc = "restore"]
    /\ UNCHANGED <<calls, plays, cmds, frame, inbox, readyHandlers, pkceState,
                   apiState, sandboxState, missed, lookupState, pendState, ctlState, authUiState, waitState, sourceState, changeState>>

InitializePlayerAuth_IgnoresTokens(authenticated) == FALSE

\* initializePlayerAuth: if (authenticated) { loadPlayerAccessToken ... }
InitializePlayerAuth(authenticated) == authenticated

HourMinutes == 60     \* 60 * 60 * 1000 ms

restorePlayerState_NoAgeLimit(pl, t) ==
    pl.savedDeviceId # NoDevice /\ pl.savedReady /\ Truthy(pl.savedTimestamp)

\* restorePlayerState: storedDeviceId && storedReady && isRecent, where
\* isRecent = storedTimestamp && (Date.now() - storedTimestamp < 60 * 60 * 1000)
restorePlayerState(pl, t) ==
    /\ pl.savedDeviceId # NoDevice
    /\ pl.savedReady
    /\ Truthy(pl.savedTimestamp) /\ t - pl.savedTimestamp < HourMinutes

\* callback of the get in restorePlayerState.  Restored: deviceId and
\* isPlayerReady are taken over, 'Ready', showPlayerControls(), and
\* initializePlayerAuth calls loadPlayerAccessToken(); otherwise (also on
\* lastError) it goes on to window.SpotifyAuth.isAuthenticated()
RestorePlayerStateCallback ==
    /\ popup.open /\ popupInit.pc = "restore"
    /\ \E lastError \in BOOLEAN :
         IF ~lastError /\ restorePlayerState(player, now)
         THEN /\ player' = [player EXCEPT !.deviceId = player.savedDeviceId,
                                          !.isPlayerReady = player.savedReady,
                                          !.authUIShown = FALSE]
              /\ popupInit' = [popupInit EXCEPT !.pc = "reload", !.status = "Ready"]
              /\ calls' = [calls EXCEPT ![PopupCaller].pc = "gat_get"]
         ELSE /\ player' = player
              /\ popupInit' = [popupInit EXCEPT !.pc = "check"]
              /\ calls' = calls
    /\ UNCHANGED <<build, now, store, authState, plays, cmds, frame, inbox,
                   readyHandlers, pkceState,
                   apiState, sandboxState, missed, lookupState, pendState, ctlState, authUiState, waitState, sourceState, changeState>>

\* callback of the get in isAuthenticated(), called by initializePlayerAuth:
\* authenticated -> loadPlayerAccessToken() calls getAccessToken();
\* otherwise 'Not Connected', showAuthUI(), clearPlayerState()
InitializePlayerAuthCallback ==
    /\ popup.open /\ popupInit.pc = "check"
    /\ \E lastError \in BOOLEAN :
         LET authenticated == ~lastError /\ isAuthenticated(store)
             seen == [popupInit EXCEPT !.authenticated = authenticated,
                                       !.cause = IF lastError THEN "lastError" ELSE NoError]
         IN IF InitializePlayerAuth(authenticated)
            THEN /\ popupInit' = [seen EXCEPT !.pc = "load"]
                 /\ calls' = [calls EXCEPT ![PopupCaller].pc = "gat_get"]
                 /\ player' = player
            ELSE /\ popupInit' = [seen EXCEPT !.pc = "done", !.status = "Not Connected"]
                 /\ calls' = calls
                 /\ player' = [player EXCEPT !.isAuthenticated = FALSE,
                                             !.authUIShown = TRUE,
                                             !.deviceId = NoDevice,
                                             !.isPlayerReady = FALSE,
                                             !.savedDeviceId = NoDevice,
                                             !.savedReady = FALSE,
                                             !.savedTimestamp = None]
    /\ UNCHANGED <<build, now, store, authState, plays, cmds, frame, inbox,
                   readyHandlers, pkceState, apiState, sandboxState, missed, lookupState, pendState, ctlState, authUiState, waitState, sourceState, changeState>>

\* getAccessToken() has settled in the loadPlayerAccessToken() that follows a
\* restored player state: resolved -> accessToken, isAuthenticated = true,
\* initializePlayer() posts init_player and initializePlayerAuth returns;
\* rejected -> the normal flow goes on with isAuthenticated()
RestoredLoadDone ==
    /\ popup.open /\ popupInit.pc = "reload"
    /\ calls[PopupCaller].pc = "settled"
    /\ calls' = [calls EXCEPT ![PopupCaller] = IdleCall]
    /\ IF calls[PopupCaller].outcome = "resolved"
       THEN /\ player' = [player EXCEPT !.accessToken = calls[PopupCaller].result,
                                        !.isAuthenticated = TRUE]
            /\ frame' = ConnectingFrame
            /\ popupInit' = [popupInit EXCEPT !.pc = "done", !.status = "Initializing..."]
       ELSE /\ player' = player
            /\ frame' = frame
            /\ popupInit' = [popupInit EXCEPT !.pc = "check"]
    /\ UNCHANGED <<build, now, store, authState, plays, cmds, inbox, readyHandlers,
                   pkceState, apiState, sandboxState, missed, lookupState, pendState, ctlState, authUiState, waitState, sourceState, changeState>>

\* getAccessToken() has settled in loadPlayerAccessToken(): resolved ->
\* accessToken, isAuthenticated = true and, unless the player is ready with a
\* device, 'Initializing...' and initializePlayer() posts init_player to the
\* frame; rejected -> the catch of initializePlayerAuth
LoadPlayerAccessTokenDone ==
    /\ popup.open /\ popupInit.pc = "load"
    /\ calls[PopupCaller].pc = "settled"
    /\ calls' = [calls EXCEPT ![PopupCaller] = IdleCall]
    /\ IF calls[PopupCaller].outcome = "resolved"
       THEN IF ~player.isPlayerReady \/ player.deviceId = NoDevice
            THEN /\ player' = [player EXCEPT !.accessToken = calls[PopupCaller].result,
                                             !.isAuthenticated = TRUE]
                 /\ frame' = ConnectingFrame
                 /\ popupInit' = [popupInit EXCEPT !.pc = "done",
                                                   !.status = "Initializing..."]
            ELSE /\ player' = [player EXCEPT !.accessToken = calls[PopupCaller].result,
                                             !.isAuthenticated = TRUE,
                                             !.authUIShown = FALSE]
                 /\ frame' = frame
                 /\ popupInit' = [popupInit EXCEPT !.pc = "done", !.status = "Ready"]
       ELSE IF NeedsReauth(calls[PopupCaller].err)
       THEN /\ player' = [player EXCEPT !.isAuthenticated = FALSE,
                                        !.authUIShown = TRUE,
                                        !.deviceId = NoDevice,
                                        !.isPlayerReady = FALSE,
                                        !.savedDeviceId = NoDevice,
                                        !.savedReady = FALSE,
                                        !.savedTimestamp = None]
            /\ frame' = frame
            /\ popupInit' = [popupInit EXCEPT !.pc = "done",
                                              !.status = "Please re-authenticate"]
       ELSE /\ player' = player
            /\ frame' = frame
            /\ popupInit' = [popupInit EXCEPT !.pc = "done",
                                              !.status = "Connected (error initializing)"]
    /\ UNCHANGED <<build, now, store, authState, plays, cmds, inbox, readyHandlers,
                   pkceState, apiState, sandboxState, missed, lookupState, pendState, ctlState, authUiState, waitState, sourceState, changeState>>

ReopenInit ==
    /\ build \in Builds
    /\ now = 0
    /\ store = EmptyStore
    /\ calls = [c \in Callers |-> IdleCall]
    /\ attempts = [a \in Attempts |-> IdleAttempt]
    /\ popup = ClickedPopup
    /\ authRequests = 1
    /\ PlayIdle
    /\ pkce = IdlePkce
    /\ api = IdleApi
    /\ sandbox = IdleSandbox
    /\ popupInit = [IdlePopupInit EXCEPT !.pc = "done", !.status = "Not Connected"]
    /\ missed = {}
    /\ lookup = IdleLookup
    /\ pend = IdlePending
    /\ ctl = IdleCommands
    /\ authUi = IdleAuthUi
    /\ waits = IdleWaits
    /\ deviceSource = "none"
    /\ tokenChanges = 0

ReopenNext ==
    \/ /\ UNCHANGED <<tokenState, playState, pkceState, apiState, sandboxState, popupInit, lookupState, pendState, ctlState, authUiState, waitState, sourceState, changeState>>
       /\ \E a \in Attempts :
            /\ \/ RelayOnAuthenticate(a)
               \/ AuthLaunch(a)
               \/ AuthCallback(a)
               \/ ExchangeResponse(a)
               \/ AuthStoreCallback(a)
               \/ AuthVerifyCallback(a)
               \/ AuthCheckCallback(a)
               \/ RelayCheckCallback(a)
            /\ missed' = Missed(a)
    \/ /\ UNCHANGED <<authState, playState, pkceState, apiState, sandboxState, reopenState, lookupState, pendState, ctlState, authUiState, waitState, sourceState, changeState>>
       /\ \/ Tick
          \/ GetAccessTokenCallback(PopupCaller)
          \/ RefreshCallback(PopupCaller)
          \/ RefreshResponse(PopupCaller)
          \/ RefreshStoreCallback(PopupCaller)
          \/ RefreshVerifyCallback(PopupCaller)
    \/ ClosePopupPage
    \/ OpenPopupPage
    \/ RestorePlayerStateCallback
    \/ InitializePlayerAuthCallback
    \/ LoadPlayerAccessTokenDone

SpecReopen == ReopenInit /\ [][ReopenNext]_vars

\* --------------------------------------------- popup opened, cached player state
\* A popup has just been opened and restorePlayerState() has issued its read.
\* The three player keys hold what an earlier popup left: nothing, or a device
\* id with its ready flag and the time it was saved.
SavedTime == MaxTime
RestoreTimes == {SavedTime + HourMinutes - 1, SavedTime + HourMinutes,
                 SavedTime + HourMinutes + 1}

RestoreInit ==
    /\ build \in Builds
    /\ now \in RestoreTimes
    /\ store \in {EmptyStore, ValidCredential, [ValidCredential EXCEPT !.exp = now + 7]}
    /\ calls = [c \in Callers |-> IdleCall]
    /\ AuthIdle
    /\ plays = [p \in PlayCalls |-> IdlePlay]
    /\ cmds = [p \in PlayCalls |-> <<>>]
    /\ frame = IdleFrame
    /\ inbox = <<>>
    /\ readyHandlers = <<>>
    /\ \E shown \in BOOLEAN, device \in {NoDevice, FrameDeviceId}, ready \in BOOLEAN,
          timestamp \in {None, SavedTime, now} :
         /\ ready \/ timestamp = None
         /\ player = [DisconnectedPlayer EXCEPT !.authUIShown = shown,
                                                !.savedDeviceId = device,
                                                !.savedReady = ready,
                                                !.savedTimestamp = timestamp]
    /\ pkce = IdlePkce
    /\ api = IdleApi
    /\ sandbox = IdleSandbox
    /\ popupInit = [IdlePopupInit EXCEPT !.pc = "restore"]
    /\ missed = {}
    /\ lookup = IdleLookup
    /\ pend = IdlePending
    /\ ctl = IdleCommands
    /\ authUi = IdleAuthUi
    /\ waits = IdleWaits
    /\ deviceSource = "none"
    /\ tokenChanges = 0

RestoreNext ==
    \/ /\ UNCHANGED <<authState, playState, pkceState, apiState, sandboxState, reopenState,
                       lookupState, pendState, ctlState, authUiState, waitState, sourceState, changeState>>
       /\ \/ GetAccessTokenCallback(PopupCaller)
          \/ RefreshCallback(PopupCaller)
          \/ RefreshResponse(PopupCaller)
          \/ RefreshStoreCallback(PopupCaller)
          \/ RefreshVerifyCallback(PopupCaller)
    \/ RestorePlayerStateCallback
    \/ RestoredLoadDone
    \/ InitializePlayerAuthCallback
    \/ LoadPlayerAccessTokenDone

SpecRestore == RestoreInit /\ [][RestoreNext]_vars

\* ------------------------------------------------------- getSpotifyDevices()
\* A device of the answer: its id (here its place in the list), its name and
\* is_active.  Of the names, two contain 'Superior Reading'.
PlayerName == "Superior Reading Extension"
WebPlayerName == "Web Player (Chrome)"
DeviceNames == {PlayerName, "Superior Reading (2)", WebPlayerName, "Kitchen"}
DeviceKinds == [name : DeviceNames, is_active : BOOLEAN]
DeviceLists ==
    UNION {{[i \in 1..n |-> [id |-> i, name |-> k[i].name, is_active |-> k[i].is_active]]
              : k \in [1..n -> DeviceKinds]} : n \in 0..MaxDevices}

\* device.name === 'Superior Reading Extension' || device.name.includes('Superior Reading')
IsOurDevice(device) == device.name \in {PlayerName, "Superior Reading (2)"}

\* device.is_active && device.name !== 'Web Player (Chrome)'
IsActiveDevice(device) == device.is_active /\ device.name # WebPlayerName

\* Array.prototype.find: the index of the first element that passes the test, 0 if none
Find(devices, Test(_)) ==
    LET found == {i \in 1..Len(devices) : Test(devices[i])}
    IN IF found = {} THEN 0 ELSE CHOOSE i \in found : \A j \in found : i <= j

getSpotifyDevices_FirstDevice(devices) ==
    IF Find(devices, IsOurDevice) # 0 THEN devices[Find(devices, IsOurDevice)].id
    ELSE IF Find(devices, IsActiveDevice) # 0 THEN devices[Find(devices, IsActiveDevice)].id
    ELSE IF Len(devices) > 0 THEN devices[1].id
    ELSE None

\* getSpotifyDevices() on the devices of a 2xx answer: our device, else an
\* active one that is not the web player, else devices[1] of two or more,
\* else devices[0], else null
getSpotifyDevices(devices) ==
    IF Find(devices, IsOurDevice) # 0 THEN devices[Find(devices, IsOurDevice)].id
    ELSE IF Find(devices, IsActiveDevice) # 0 THEN devices[Find(devices, IsActiveDevice)].id
    ELSE IF Len(devices) >= 2 THEN devices[2].id
    ELSE IF Len(devices) > 0 THEN devices[1].id
    ELSE None

\* getSpotifyDevices() is called: the request is sent
GetSpotifyDevices ==
    /\ lookup.pc = "idle"
    /\ lookup' = [IdleLookup EXCEPT !.pc = "fetch"]
    /\ UNCHANGED <<build, now, store>>

\* the answer arrives: a non-2xx answer or a network error ends in the catch
\* (null), a 2xx answer is searched
DevicesResponse ==
    /\ lookup.pc = "fetch"
    /\ \/ lookup' = [lookup EXCEPT !.pc = "done", !.failed = TRUE]
       \/ \E devices \in DeviceLists :
            lookup' = [lookup EXCEPT !.pc = "done", !.devices = devices,
                                     !.result = getSpotifyDevices(devices)]
    /\ UNCHANGED <<build, now, store>>

\* the caller has taken the device id
DevicesReturn ==
    /\ lookup.pc = "done"
    /\ lookup' = IdleLookup
    /\ UNCHANGED <<build, now, store>>

DevicesInit ==
    /\ build \in Builds
    /\ now = 0
    /\ store = ValidCredential
    /\ calls = [c \in Callers |-> IdleCall]
    /\ AuthIdle
    /\ PlayIdle
    /\ pkce = IdlePkce
    /\ api = IdleApi
    /\ sandbox = IdleSandbox
    /\ popupInit = IdlePopupInit
    /\ missed = {}
    /\ lookup = IdleLookup
    /\ pend = IdlePending
    /\ ctl = IdleCommands
    /\ authUi = IdleAuthUi
    /\ waits = IdleWaits
    /\ deviceSource = "none"
    /\ tokenChanges = 0

DevicesNext ==
  /\ UNCHANGED <<tokenState, authState, playState, pkceState, apiState, sandboxState,
                 reopenState, pendState, ctlState, authUiState, waitState, sourceState, changeState>>
  /\
    \/ GetSpotifyDevices
    \/ DevicesResponse
    \/ DevicesReturn

SpecDevices == DevicesInit /\ [][DevicesNext]_vars

\* --------------------------------------- pending recommendations in storage
\* The background stores a playback request under pendingRecommendations /
\* recommendationsTimestamp; the popup reads it in checkPendingRecommendations(),
\* which it calls when it opens and from its chrome.storage.onChanged listener.
\* A request is named by the number of its 'startPlayback' message.
FreshMinutes == 5     \* 5 * 60 * 1000 ms
Checks == 1..MaxChecks

\* a run that has ended holds nothing
EndedCheck(cause) == [IdleCheck EXCEPT !.pc = "done", !.cause = cause]

\* the runs of a popup that was closed do not go on
GoneCheck == [IdleCheck EXCEPT !.pc = "gone"]

\* a checkPendingRecommendations() call: its get is issued by the next run
StartCheck(pd) ==
    LET k == CHOOSE k \in Checks : pd.checks[k].pc = "idle" /\
                                   \A j \in Checks : j < k => pd.checks[j].pc # "idle"
    IN [pd EXCEPT !.checks[k].pc = "get"]

CanStartCheck(pd) == \E k \in Checks : pd.checks[k].pc = "idle"

IsRecent_Inclusive(timestamp, t) == t - timestamp <= FreshMinutes

\* age < 5 * 60 * 1000, with age = Date.now() - result.recommendationsTimestamp
IsRecent(timestamp, t) == t - timestamp < FreshMinutes

\* background onMessage 'startPlayback': the request is stored with
\* Date.now(); the write fires onChanged in an open popup
StartPlayback ==
    /\ pend.posted < MaxRequests
    /\ \E lastError \in BOOLEAN :
         pend' = IF lastError THEN [pend EXCEPT !.posted = @ + 1]
                 ELSE [pend EXCEPT !.posted = @ + 1, !.recs = pend.posted + 1,
                                   !.timestamp = now,
                                   !.changes = IF popup.open THEN @ + 1 ELSE @]
    /\ UNCHANGED <<build, now, store, popup, player>>

\* popup, chrome.storage.onChanged listener with changes.pendingRecommendations
OnPendingChanged ==
    /\ popup.open /\ pend.changes > 0
    /\ CanStartCheck(pend)
    /\ pend' = StartCheck([pend EXCEPT !.changes = @ - 1])
    /\ UNCHANGED <<build, now, store, popup, player>>

\* the storage answers the get of checkPendingRecommendations(): the answer
\* holds what is stored at this moment and waits for the popup's turn
CheckPendingServed(k) ==
    /\ popup.open /\ pend.checks[k].pc = "get"
    /\ pend' = [pend EXCEPT !.checks[k].pc = "got",
                            !.checks[k].recs = pend.recs,
                            !.checks[k].timestamp = pend.timestamp]
    /\ UNCHANGED <<build, now, store, popup, player>>

\* the await of the get returns with result.  A request that is there and
\* recent is taken and chrome.storage.local.remove is issued (which fires
\* onChanged when it removes something); an old one is ignored; a failing get
\* or remove ends in the catch
CheckPendingCallback(k) ==
    /\ popup.open /\ pend.checks[k].pc = "got"
    /\ LET result == pend.checks[k] IN
       \E getError \in BOOLEAN, removeError \in BOOLEAN :
         pend' = IF getError
                 THEN [pend EXCEPT !.checks[k] = EndedCheck("lastError")]
                 ELSE IF ~Truthy(result.recs) \/ ~Truthy(result.timestamp)
                         \/ ~IsRecent(result.timestamp, now)
                 THEN [pend EXCEPT !.checks[k] = EndedCheck(NoError)]
                 ELSE IF removeError
                 THEN [pend EXCEPT !.checks[k] = EndedCheck("lastError")]
                 ELSE [pend EXCEPT !.checks[k].pc = "remove",
                                   !.recs = None, !.timestamp = None,
                                   !.changes = IF pend.recs # None THEN @ + 1 ELSE @]
    /\ UNCHANGED <<build, now, store, popup, player>>

\* the remove has returned: an authenticated popup calls playRecommendations,
\* another one first awaits initializePlayerAuth()
CheckRemoveCallback(k) ==
    /\ popup.open /\ pend.checks[k].pc = "remove"
    /\ pend' = IF player.isAuthenticated
               THEN [pend EXCEPT !.checks[k] = EndedCheck(NoError),
                                 !.played = Append(@, pend.checks[k].recs)]
               ELSE [pend EXCEPT !.checks[k].pc = "auth"]
    /\ UNCHANGED <<build, now, store, popup, player>>

\* initializePlayerAuth() has returned, with isAuthenticated set or not:
\* playRecommendations, or the request is kept in pendingRecommendations
CheckAuthDone(k) ==
    /\ popup.open /\ pend.checks[k].pc = "auth"
    /\ \E authenticated \in BOOLEAN :
         /\ player' = [player EXCEPT !.isAuthenticated = authenticated,
                                     !.authUIShown = ~authenticated]
         /\ pend' = IF authenticated
                    THEN [pend EXCEPT !.checks[k] = EndedCheck(NoError),
                                      !.played = Append(@, pend.checks[k].recs)]
                    ELSE [pend EXCEPT !.checks[k] = EndedCheck(NoError),
                                      !.slot = pend.checks[k].recs]
    /\ UNCHANGED <<build, now, store, popup>>

\* the popup is closed: its runs, its variables and the events for it are gone
ClosePendingPopup ==
    /\ popup.open
    /\ popup' = ClosedPopup
    /\ player' = DisconnectedPlayer
    /\ pend' = [pend EXCEPT !.changes = 0, !.slot = None,
                            !.checks = [k \in Checks |->
                                          IF pend.checks[k].pc = "idle" THEN IdleCheck
                                          ELSE GoneCheck]]
    /\ UNCHANGED <<build, now, store>>

\* the popup is opened: DOMContentLoaded calls checkPendingRecommendations()
OpenPendingPopup ==
    /\ ~popup.open
    /\ CanStartCheck(pend)
    /\ popup' = OpenedPopup
    /\ player' = DisconnectedPlayer
    /\ pend' = StartCheck(pend)
    /\ UNCHANGED <<build, now, store>>

\* A request may have been stored SavedTime minutes after the epoch, around
\* five minutes ago; the popup is closed.
PendingTimes == {SavedTime + FreshMinutes - 1, SavedTime + FreshMinutes,
                 SavedTime + FreshMinutes + 1}

PendingInit ==
    /\ build \in Builds
    /\ now \in PendingTimes
    /\ store = ValidCredential
    /\ calls = [c \in Callers |-> IdleCall]
    /\ attempts = [a \in Attempts |-> IdleAttempt]
    /\ popup = ClosedPopup
    /\ authRequests = 0
    /\ PlayIdle
    /\ pkce = IdlePkce
    /\ api = IdleApi
    /\ sandbox = IdleSandbox
    /\ popupInit = IdlePopupInit
    /\ missed = {}
    /\ lookup = IdleLookup
    /\ pend \in {IdlePending,
                 [IdlePending EXCEPT !.posted = 1, !.recs = 1, !.timestamp = SavedTime]}
    /\ ctl = IdleCommands
    /\ authUi = IdleAuthUi
    /\ waits = IdleWaits
    /\ deviceSource = "none"
    /\ tokenChanges = 0

PendingNext ==
  /\ UNCHANGED <<tokenState, attempts, authRequests, plays, cmds, frame, inbox,
                 readyHandlers, pkceState, apiState, sandboxState, reopenState,
                 lookupState, ctlState, authUiState, waitState, sourceState, changeState>>
  /\
    \/ StartPlayback
    \/ OnPendingChanged
    \/ \E k \in Checks : CheckPendingServed(k)
    \/ \E k \in Checks : CheckPendingCallback(k)
    \/ \E k \in Checks : CheckRemoveCallback(k)
    \/ \E k \in Checks : CheckAuthDone(k)
    \/ ClosePendingPopup
    \/ OpenPendingPopup

SpecPending == PendingInit /\ [][PendingNext]_vars

\* ------------------------------------- controlPlayback / the PUT of playback
\* The commands of the popup on a session that is ready on the frame's device,
\* or that lost its device to a not-ready signal (the buttons stay enabled).
\* "recommendations" is playRecommendations() past its readiness test.
Commands == 1..MaxCommands
TransportActions == {"play", "pause", "next", "previous"}
NetworkError == 1     \* fetch() throws
ControlResponses == {200, 204, 401, 404, NetworkError}

ReadyPlayer ==
    [ConnectingPlayer EXCEPT !.deviceId = FrameDeviceId, !.isPlayerReady = TRUE,
                             !.savedDeviceId = FrameDeviceId, !.savedReady = TRUE,
                             !.savedTimestamp = now]

AfterResponse_Retries(cmd, response) ==
    IF response \in {200, 204}
    THEN [cmd EXCEPT !.pc = "done", !.response = response]
    ELSE [cmd EXCEPT !.requests = @ + 1, !.response = response]

\* the answer to the one request of a command.  controlPlayback: anything
\* but 204 / 200 throws into the catch, 'Control error'.  playRecommendations:
\* 204 'Playing', 404 'Device not found', anything else 'Playback error'
AfterResponse(cmd, response) ==
    [cmd EXCEPT !.pc = "done", !.response = response,
                !.status = IF cmd.action \in TransportActions
                           THEN IF response \in {200, 204} THEN cmd.status
                                ELSE "Control error"
                           ELSE IF response = 204 THEN "Playing"
                                ELSE IF response = 404 THEN "Device not found"
                                ELSE "Playback error"]

\* controlPlayback(action): 'Not ready' without token or device, otherwise
\* one request to /v1/me/player/<action>
ControlPlayback(c, action) ==
    /\ ctl[c].pc = "idle"
    /\ \A b \in Commands : b < c => ctl[b].pc # "idle"
    /\ ctl' = [ctl EXCEPT ![c] =
                 IF player.accessToken = None \/ player.deviceId = NoDevice
                 THEN [@ EXCEPT !.pc = "done", !.action = action, !.status = "Not ready"]
                 ELSE [@ EXCEPT !.pc = "fetch", !.action = action,
                                !.device = player.deviceId, !.requests = @ + 1]]
    /\ UNCHANGED <<build, now, store, playState, authUiState, waitState, sourceState, changeState>>

\* playRecommendations(recommendations) of a ready session: 'No tracks'
\* without a playable track, otherwise one PUT to /v1/me/player/play
PlayTracks(c, recs) ==
    /\ ctl[c].pc = "idle"
    /\ \A b \in Commands : b < c => ctl[b].pc # "idle"
    /\ SessionReady(PlayState)
    /\ ctl' = [ctl EXCEPT ![c] =
                 IF Len(TrackUris(recs)) = 0
                 THEN [@ EXCEPT !.pc = "done", !.action = "recommendations",
                                !.status = "No tracks"]
                 ELSE [@ EXCEPT !.pc = "fetch", !.action = "recommendations",
                                !.device = player.deviceId, !.requests = @ + 1,
                                !.status = "Playing..."]]
    /\ UNCHANGED <<build, now, store, playState, authUiState, waitState, sourceState, changeState>>

\* the Web API answers the request of command c, or the fetch throws
CommandResponse(c) ==
    /\ ctl[c].pc = "fetch"
    /\ \E response \in ControlResponses :
         ctl' = [ctl EXCEPT ![c] = AfterResponse(@, response)]
    /\ UNCHANGED <<build, now, store, playState, authUiState, waitState, sourceState, changeState>>

\* the frame's not_ready event reaches the popup: NOT_AUTHENTICATED,
\* clearPlayerState()
ControlNotReady ==
    /\ player.isPlayerReady
    /\ player' = OnNotAuthenticated(PlayState).player
    /\ UNCHANGED <<build, now, store, plays, cmds, frame, inbox, readyHandlers, ctl>>

ControlInit ==
    /\ build \in Builds
    /\ now = 0
    /\ store = ValidCredential
    /\ calls = [c \in Callers |-> IdleCall]
    /\ AuthIdle
    /\ player = ReadyPlayer
    /\ plays = [p \in PlayCalls |-> IdlePlay]
    /\ cmds = [p \in PlayCalls |-> <<>>]
    /\ frame = [ConnectingFrame EXCEPT !.state = "ready"]
    /\ inbox = <<>>
    /\ readyHandlers = <<>>
    /\ pkce = IdlePkce
    /\ api = IdleApi
    /\ sandbox = IdleSandbox
    /\ popupInit = IdlePopupInit
    /\ missed = {}
    /\ lookup = IdleLookup
    /\ pend = IdlePending
    /\ ctl = IdleCommands
    /\ authUi = IdleAuthUi
    /\ waits = IdleWaits
    /\ deviceSource = "none"
    /\ tokenChanges = 0

ControlNext ==
  /\ UNCHANGED <<tokenState, authState, pkceState, apiState, sandboxState,
                 reopenState, lookupState, pendState, authUiState, waitState, sourceState, changeState>>
  /\
    \/ \E c \in Commands, action \in TransportActions : ControlPlayback(c, action)
    \/ \E c \in Commands : \E recs \in {NoTracks, Tracks(c)} : PlayTracks(c, recs)
    \/ \E c \in Commands : CommandResponse(c)
    \/ ControlNotReady

SpecControl == ControlInit /\ [][ControlNext]_vars

\* ------------------------------------ the popup's 60 s timer and authStatus
\* The popup stays open; the relay and authenticate() run as in SpecAuth and
\* the popup handles each status event in the step that sends it.

\* the getAccessToken() call of the 'success' handler run for attempt a
HandlerCaller(a) == ((a - 1) % MaxCallers) + 1

OnAuthStatus_IgnoresLate(a) ==
    LET status == attempts'[a].status
    IN IF ~popup.open \/ status = attempts[a].status \/ authUi.timedOut THEN authUi
       ELSE IF status = "success"
       THEN [authUi EXCEPT !.runs[a] = [pc |-> "verify", late |-> FALSE]]
       ELSE IF status = "error"
       THEN [authUi EXCEPT !.text = "error"]
       ELSE [authUi EXCEPT !.text = "Connecting..."]

\* the authStatus listener (popup.js:468-533) handles the event this step of
\* the relay sent for attempt a.  'success': clearTimeout and the handler run
\* starts with isAuthenticated(); 'error': clearTimeout, the message is
\* shown; 'authenticating': 'Connecting...'
OnAuthStatus(a) ==
    LET status == attempts'[a].status
    IN IF ~popup.open \/ status = attempts[a].status THEN authUi
       ELSE IF status = "success"
       THEN [authUi EXCEPT !.runs[a] = [pc |-> "verify", late |-> authUi.timedOut]]
       ELSE IF status = "error"
       THEN [authUi EXCEPT !.text = "error"]
       ELSE [authUi EXCEPT !.text = "Connecting..."]

\* authButton click with the status text of the handler
ClickConnect ==
    /\ ClickAuthButton
    /\ authUi' = [authUi EXCEPT !.text = "Connecting..."]
    /\ UNCHANGED <<tokenState, playState, waitState, sourceState, changeState>>

\* the callback of setTimeout(..., 60000): 'Authentication timeout - check
\* console', authButton.disabled = false; nothing is sent to the background
TimeoutFires ==
    /\ AuthTimeout
    /\ authUi' = [authUi EXCEPT !.timedOut = TRUE, !.text = "Authentication timeout"]
    /\ UNCHANGED <<tokenState, playState, waitState, sourceState, changeState>>

\* 'success' handler: callback of the get in window.SpotifyAuth
\* .isAuthenticated(); false -> 'Authentication verification failed' in the
\* catch, true -> loadPlayerAccessToken() calls getAccessToken()
SuccessVerifyCallback(a) ==
    /\ popup.open /\ authUi.runs[a].pc = "verify"
    /\ \E lastError \in BOOLEAN :
         IF ~lastError /\ isAuthenticated(store)
         THEN /\ calls[HandlerCaller(a)].pc = "idle"
              /\ \A b \in Attempts : HandlerCaller(b) = HandlerCaller(a)
                                       => authUi.runs[b].pc # "load"
              /\ calls' = [calls EXCEPT ![HandlerCaller(a)].pc = "gat_get"]
              /\ authUi' = [authUi EXCEPT !.runs[a].pc = "load"]
         ELSE /\ calls' = calls
              /\ authUi' = [authUi EXCEPT !.runs[a] = IdleRun,
                                          !.text = "Authentication verification failed"]
    /\ UNCHANGED <<build, now, store, authState, playState, waitState, sourceState, changeState>>

\* 'success' handler: getAccessToken() has settled.  Resolved: accessToken,
\* isAuthenticated = true, initializePlayer() posts init_player to the frame,
\* 'Connected'; rejected: the catch shows the error.  Either way the button
\* is enabled
SuccessLoadDone(a) ==
    /\ popup.open /\ authUi.runs[a].pc = "load"
    /\ calls[HandlerCaller(a)].pc = "settled"
    /\ calls' = [calls EXCEPT ![HandlerCaller(a)] = IdleCall]
    /\ IF calls[HandlerCaller(a)].outcome = "resolved"
       THEN /\ player' = [player EXCEPT !.accessToken = calls[HandlerCaller(a)].result,
                                        !.isAuthenticated = TRUE]
            /\ frame' = ConnectingFrame
            /\ authUi' = [authUi EXCEPT !.runs[a] = IdleRun, !.text = "Connected"]
       ELSE /\ player' = player
            /\ frame' = frame
            /\ authUi' = [authUi EXCEPT !.runs[a] = IdleRun, !.text = "error"]
    /\ popup' = [popup EXCEPT !.disabled = FALSE]
    /\ UNCHANGED <<build, now, store, attempts, authRequests, plays, cmds, inbox,
                   readyHandlers>>

TimeoutInit == AuthInit

TimeoutNext ==
  /\ UNCHANGED <<pkceState, apiState, sandboxState, reopenState, lookupState,
                 pendState, ctlState, waitState, sourceState, changeState>>
  /\
    \/ ClickConnect
    \/ TimeoutFires
    \/ /\ UNCHANGED <<tokenState, playState, waitState, sourceState, changeState>>
       /\ \E a \in Attempts :
            /\ \/ RelayOnAuthenticate(a)
               \/ AuthLaunch(a)
               \/ AuthCallback(a)
               \/ ExchangeResponse(a)
               \/ AuthStoreCallback(a)
               \/ AuthVerifyCallback(a)
               \/ AuthCheckCallback(a)
               \/ RelayCheckCallback(a)
            /\ authUi' = OnAuthStatus(a)
    \/ /\ UNCHANGED <<authState, playState, authUiState, waitState, sourceState, changeState>>
       /\ \E c \in Callers : GetAccessTokenCallback(c)
    \/ \E a \in Attempts : SuccessVerifyCallback(a)
    \/ \E a \in Attempts : SuccessLoadDone(a)

SpecTimeout == TimeoutInit /\ [][TimeoutNext]_vars

\* ---------------------------------------- ensurePlayerReady: the readiness wait
\* The popup is authenticated and has sent init_player; each call of
\* ensurePlayerReady that finds the player not ready arms a 20 s timeout, a
\* 100 ms polling interval (stopped by a 5 s timer) and a one-off message
\* listener.  Messages of the frame are handled first by the window listener
\* of the popup and then by the readyHandler of every wait that listens.

\* resolve(result): the promise settles once, later calls change nothing
Resolved(w, result) ==
    IF w.pc = "resolved" THEN [w EXCEPT !.ranLate = TRUE]
    ELSE [w EXCEPT !.pc = "resolved", !.result = result]

\* readyHandler: DEVICE_ID / PLAYER_READY -> clearTimeout(timeout),
\* removeEventListener, resolve(true); PLAYER_ERROR -> the same with
\* resolve(false).  checkInterval is not cleared
ReadyHandler(w, type) ==
    IF ~w.listener THEN w
    ELSE Resolved([w EXCEPT !.timer = FALSE, !.listener = FALSE], type # "player_error")

\* ensurePlayerReady after `await initializePlayer()`: resolve(true) at once
\* when the player is ready, otherwise the timeout, the listener, the
\* interval and the timer that stops the interval are set up
StartWait(p) ==
    /\ waits[p].pc = "idle"
    /\ \A q \in PlayCalls : q < p => waits[q].pc # "idle"
    /\ waits' = [waits EXCEPT ![p] =
                   IF player.isPlayerReady /\ player.deviceId # NoDevice
                   THEN [@ EXCEPT !.pc = "resolved", !.result = TRUE]
                   ELSE [@ EXCEPT !.pc = "waiting", !.timer = TRUE, !.interval = TRUE,
                                  !.stop = TRUE, !.listener = TRUE]]
    /\ UNCHANGED <<build, now, store, player, deviceSource>>

\* the frame's ready notification (DEVICE_ID, PLAYER_READY) is handled
WaitReadyMessage ==
    /\ \E p \in PlayCalls : waits[p].pc # "idle"
    /\ player' = OnPlayerReady(PlayState, Message("player_ready", FrameDeviceId, NoText)).player
    /\ deviceSource' = "frame"
    /\ waits' = [p \in PlayCalls |-> ReadyHandler(waits[p], "player_ready")]
    /\ UNCHANGED <<build, now, store>>

\* a PLAYER_ERROR of the frame is handled
WaitErrorMessage ==
    /\ \E p \in PlayCalls : waits[p].pc # "idle"
    /\ \E error \in ConnectErrors :
         player' = OnPlayerError(PlayState, Message("player_error", NoDevice, error)).player
    /\ waits' = [p \in PlayCalls |-> ReadyHandler(waits[p], "player_error")]
    /\ UNCHANGED <<build, now, store, deviceSource>>

\* NOT_AUTHENTICATED of the frame is handled: clearPlayerState(); the
\* readyHandlers ignore it
WaitNotReadyMessage ==
    /\ player.isPlayerReady /\ deviceSource = "frame"
    /\ player' = OnNotAuthenticated(PlayState).player
    /\ deviceSource' = "none"
    /\ UNCHANGED <<build, now, store, waits>>

\* a tick of checkInterval that finds the player ready: clearTimeout,
\* clearInterval, removeEventListener, resolve(true)
WaitPoll(p) ==
    /\ waits[p].interval
    /\ player.isPlayerReady /\ player.deviceId # NoDevice
    /\ waits' = [waits EXCEPT ![p] =
                   Resolved([@ EXCEPT !.timer = FALSE, !.interval = FALSE,
                                      !.listener = FALSE], TRUE)]
    /\ UNCHANGED <<build, now, store, player, deviceSource>>

\* the 5 s timer: clearInterval(checkInterval)
WaitStopInterval(p) ==
    /\ waits[p].stop
    /\ waits' = [waits EXCEPT ![p].stop = FALSE, ![p].interval = FALSE]
    /\ UNCHANGED <<build, now, store, player, deviceSource>>

\* the 20 s timeout, after the 5 s timer: removeEventListener and
\* getSpotifyDevices() is called
WaitTimeout(p) ==
    /\ waits[p].timer /\ ~waits[p].stop
    /\ waits' = [waits EXCEPT ![p].timer = FALSE, ![p].listener = FALSE,
                              ![p].pc = "fallback"]
    /\ UNCHANGED <<build, now, store, player, deviceSource>>

\* the timeout callback after `await getSpotifyDevices()` gave a device id:
\* deviceId = fallbackDeviceId, isPlayerReady = true, savePlayerState()
WaitFallback(pl, fallbackDeviceId, t) ==
    [pl EXCEPT !.deviceId = fallbackDeviceId, !.isPlayerReady = TRUE,
               !.savedDeviceId = fallbackDeviceId, !.savedReady = TRUE,
               !.savedTimestamp = t]

\* getSpotifyDevices() answers: a device id -> resolve(true), null ->
\* resolve(false)
WaitFallbackResponse(p) ==
    /\ waits[p].pc = "fallback"
    /\ \E fallbackDeviceId \in Devices \cup {NoDevice} :
         IF fallbackDeviceId # NoDevice
         THEN /\ player' = WaitFallback(player, fallbackDeviceId, now)
              /\ deviceSource' = IF player'.deviceId = player.deviceId /\ player.isPlayerReady
                                 THEN deviceSource ELSE "fallback"
              /\ waits' = [waits EXCEPT ![p] = Resolved(@, TRUE)]
         ELSE /\ player' = player
              /\ deviceSource' = deviceSource
              /\ waits' = [waits EXCEPT ![p] = Resolved(@, FALSE)]
    /\ UNCHANGED <<build, now, store>>

WaitInit ==
    /\ build = "current"
    /\ now = 0
    /\ store = ValidCredential
    /\ calls = [c \in Callers |-> IdleCall]
    /\ AuthIdle
    /\ player = ConnectingPlayer
    /\ plays = [p \in PlayCalls |-> IdlePlay]
    /\ cmds = [p \in PlayCalls |-> <<>>]
    /\ frame = ConnectingFrame
    /\ inbox = <<>>
    /\ readyHandlers = <<>>
    /\ pkce = IdlePkce
    /\ api = IdleApi
    /\ sandbox = IdleSandbox
    /\ popupInit = IdlePopupInit
    /\ missed = {}
    /\ lookup = IdleLookup
    /\ pend = IdlePending
    /\ ctl = IdleCommands
    /\ authUi = IdleAuthUi
    /\ waits = IdleWaits
    /\ deviceSource = "none"
    /\ tokenChanges = 0

WaitNext ==
  /\ UNCHANGED <<calls, attempts, popup, authRequests, plays, cmds, frame, inbox,
                 readyHandlers, pkce, api, sandbox, popupInit, missed, lookup, pend,
                 ctl, authUi, tokenChanges>>
  /\
    \/ \E p \in PlayCalls : StartWait(p)
    \/ WaitReadyMessage
    \/ WaitErrorMessage
    \/ WaitNotReadyMessage
    \/ \E p \in PlayCalls : WaitPoll(p)
    \/ \E p \in PlayCalls : WaitStopInterval(p)
    \/ \E p \in PlayCalls : WaitTimeout(p)
    \/ \E p \in PlayCalls : WaitFallbackResponse(p)

SpecWait == WaitInit /\ [][WaitNext]_vars

\* ------------------------------------- popup: reaction to token changes
\* The popup is open and tokens have just been written (by the background's
\* authenticate()), so that an onChanged event with the token keys waits for
\* the popup.  The listener calls initializePlayerAuth(); the runs are taken
\* one after the other.  The provider may grant any lifetime, also one that
\* is not longer than the margin of getAccessToken.
ProviderLifetimes == Lifetimes \cup {MarginMinutes - 1, MarginMinutes}

ProviderTokenData ==
    {[d EXCEPT !.expires_in = expiresIn] :
        d \in RefreshTokenData, expiresIn \in ProviderLifetimes \cup {None, 0}}

\* changes.spotify_access_token || changes.spotify_refresh_token: onChanged
\* names the keys whose stored value is not what it was
TokensChanged(before, after) == before.at # after.at \/ before.rt # after.rt

\* chrome.storage.onChanged listener, token keys: initializePlayerAuth() is
\* called and restorePlayerState() issues its chrome.storage.local.get
OnTokensChanged ==
    /\ popup.open /\ tokenChanges > 0
    /\ popupInit.pc \in {"idle", "done"}
    /\ tokenChanges' = tokenChanges - 1
    /\ popupInit' = [IdlePopupInit EXCEPT !.pc = "restore"]
    /\ UNCHANGED <<build, now, store, tokenState, authState, playState, pkceState,
                   apiState, sandboxState, missed, lookupState, pendState, ctlState,
                   authUiState, waitState, sourceState>>

\* the refresh of the popup's getAccessToken() is answered; the write of
\* storeTokens() fires onChanged in the popup when it changes a token (of the
\* events that wait, MaxChanges are kept)
PopupRefreshResponse ==
    /\ RefreshResponseOf(PopupCaller, ProviderTokenData)
    /\ tokenChanges' = IF TokensChanged(store, store') /\ tokenChanges < MaxChanges
                       THEN tokenChanges + 1
                       ELSE tokenChanges

ReactInit ==
    /\ build \in Builds
    /\ now = SavedTime
    /\ \E accessToken \in Tokens, expiresIn \in ProviderLifetimes :
         store = StorageSet(EmptyStore, StoreItems(accessToken, accessToken, expiresIn, now))
    /\ calls = [c \in Callers |-> IdleCall]
    /\ attempts = [a \in Attempts |-> IdleAttempt]
    /\ popup = OpenedPopup
    /\ authRequests = 0
    /\ plays = [p \in PlayCalls |-> IdlePlay]
    /\ cmds = [p \in PlayCalls |-> <<>>]
    /\ frame = IdleFrame
    /\ inbox = <<>>
    /\ readyHandlers = <<>>
    /\ player \in {DisconnectedPlayer,
                   [DisconnectedPlayer EXCEPT !.savedDeviceId = FrameDeviceId,
                                              !.savedReady = TRUE,
                                              !.savedTimestamp = SavedTime]}
    /\ pkce = IdlePkce
    /\ api = IdleApi
    /\ sandbox = IdleSandbox
    /\ popupInit = [IdlePopupInit EXCEPT !.pc = "done", !.status = "Not Connected"]
    /\ missed = {}
    /\ lookup = IdleLookup
    /\ pend = IdlePending
    /\ ctl = IdleCommands
    /\ authUi = IdleAuthUi
    /\ waits = IdleWaits
    /\ deviceSource = "none"
    /\ tokenChanges = 1

\* the steps of the popup and of the services that answer it
ReactChain ==
    \/ /\ UNCHANGED <<authState, playState, pkceState, apiState, sandboxState, reopenState,
                       lookupState, pendState, ctlState, authUiState, waitState, sourceState>>
       /\ \/ /\ \/ GetAccessTokenCallback(PopupCaller)
                \/ RefreshCallback(PopupCaller)
                \/ RefreshStoreCallback(PopupCaller)
                \/ RefreshVerifyCallback(PopupCaller)
             /\ UNCHANGED changeState
          \/ PopupRefreshResponse
    \/ OnTokensChanged
    \/ RestorePlayerStateCallback
    \/ RestoredLoadDone
    \/ InitializePlayerAuthCallback
    \/ LoadPlayerAccessTokenDone

ReactNext == ReactChain

SpecReact == ReactInit /\ [][ReactNext]_vars

\* every callback that is due runs and every request is answered
SpecReactFair == SpecReact /\ WF_vars(ReactChain)

\* ------------------------------- re-authentication while the popup refreshes
\* A credential of an earlier consent is stored and the popup's Connect button
\* has been clicked (the popup shows it again after any failed refresh); the
\* popup's own getAccessToken() calls go on while the background runs
\* authenticate().
RaceInit ==
    /\ build \in Builds
    /\ now = 0
    /\ store = ValidCredential
    /\ calls = [c \in Callers |-> IdleCall]
    /\ attempts = [a \in Attempts |-> IdleAttempt]
    /\ popup = ClickedPopup
    /\ authRequests = 1
    /\ PlayIdle
    /\ pkce = IdlePkce
    /\ api = IdleApi
    /\ sandbox = IdleSandbox
    /\ popupInit = IdlePopupInit
    /\ missed = {}
    /\ lookup = IdleLookup
    /\ pend = IdlePending
    /\ ctl = IdleCommands
    /\ authUi = IdleAuthUi
    /\ waits = IdleWaits
    /\ deviceSource = "none"
    /\ tokenChanges = 0

RaceNext ==
    \/ /\ UNCHANGED <<tokenState, playState, pkceState, apiState, sandboxState, reopenState,
                       lookupState, pendState, ctlState, authUiState, waitState, sourceState,
                       changeState>>
       /\ \/ \E a \in Attempts : RelayOnAuthenticate(a)
          \/ \E a \in Attempts : AuthLaunch(a)
          \/ \E a \in Attempts : AuthCallback(a)
          \/ \E a \in Attempts : ExchangeResponse(a)
          \/ \E a \in Attempts : AuthStoreCallback(a)
          \/ \E a \in Attempts : AuthVerifyCallback(a)
          \/ \E a \in Attempts : AuthCheckCallback(a)
          \/ \E a \in Attempts : RelayCheckCallback(a)
    \/ /\ UNCHANGED <<authState, playState, pkceState, apiState, sandboxState, reopenState,
                       lookupState, pendState, ctlState, authUiState, waitState, sourceState,
                       changeState>>
       /\ \/ Tick
          \/ GetAccessToken(PopupCaller)
          \/ GetAccessTokenCallback(PopupCaller)
          \/ RefreshCallback(PopupCaller)
          \/ RefreshResponse(PopupCaller)
          \/ RefreshStoreCallback(PopupCaller)
          \/ RefreshVerifyCallback(PopupCaller)
          \/ CallReturn(PopupCaller)

SpecRace == RaceInit /\ [][RaceNext]_vars

\* ------------------------------------------- sandbox frame: initializePlayer
\* In this part build selects the copy of the sandbox script: "current" is
\* src/Frontend/chrome_extension/spotify_sandbox.js, which disconnects an
\* existing player before it creates the next; "legacy" is src/unnamed/part_003,
\* which does not.  Every init_player message starts its own run of the async
\* initializePlayer(); the runs share errorSent and spotifyPlayer.
\* script.onerror of loadSpotifySDK(): 'Failed to load Spotify Web Playback SDK'
ScriptLoadError == {"Failed", "load", "Spotify", "Playback", "SDK"}

\* the catch around await loadSpotifySDK(): 'Failed to load SDK: ' + message
SdkLoadError == {"Failed", "load", "SDK"}

\* the error events whose listeners test and set errorSent
SdkErrors == {AuthenticationError, AccountError, InitializationError}

\* new Spotify.Player, setupPlayerHandlers(), errorSent = false, connect()
CreatePlayer(sb, i) ==
    [sb EXCEPT !.spotifyPlayer = i, !.errorSent = FALSE, !.inits[i].pc = "connecting",
               !.live = @ \cup {i}]

\* await spotifyPlayer.disconnect() of run i is over, spotifyPlayer = null:
\* the instance the run found is disconnected, the variable is cleared
\* whatever instance it holds by now
Discard(sb, i) ==
    [sb EXCEPT !.spotifyPlayer = 0, !.live = @ \ {sb.inits[i].old}]

\* the 2 s timer set after connect() returned false: if (!errorSent) the
\* generic 'Failed to connect to Spotify ...' PLAYER_ERROR is sent
SendGenericError(sb, i) ==
    IF ~sb.errorSent
    THEN [sb EXCEPT !.errorSent = TRUE, !.inits[i].pc = "done",
                    !.inits[i].sent = Append(@, ConnectError)]
    ELSE [sb EXCEPT !.inits[i].pc = "done"]

\* message listener, INIT_PLAYER: initializePlayer(token) up to its first
\* await after the SDK is there; when the SDK script does not load, onerror
\* sends a PLAYER_ERROR and rejects, the catch sends another and the run ends
OnInitPlayer(i) ==
    /\ sandbox.inits[i].pc = "idle"
    /\ \A j \in InitCalls : j < i => sandbox.inits[j].pc # "idle"
    /\ \/ sandbox' = [sandbox EXCEPT !.inits[i].pc = "done",
                                      !.inits[i].sent =
                                          @ \o <<ScriptLoadError, SdkLoadError>>]
       \/ sandbox' = IF build = "current" /\ sandbox.spotifyPlayer # 0
                     THEN [sandbox EXCEPT !.inits[i].pc = "disconnecting",
                                          !.inits[i].old = sandbox.spotifyPlayer]
                     ELSE CreatePlayer(sandbox, i)
    /\ UNCHANGED <<build, now, store>>

\* await spotifyPlayer.disconnect() is over: spotifyPlayer = null, then the
\* new player is created and connect() is called
DisconnectDone(i) ==
    /\ sandbox.inits[i].pc = "disconnecting"
    /\ sandbox' = CreatePlayer(Discard(sandbox, i), i)
    /\ UNCHANGED <<build, now, store>>

\* await spotifyPlayer.connect() is over; on false the 2 s timer is set
ConnectReturns(i) ==
    /\ sandbox.inits[i].pc = "connecting"
    /\ \E connected \in BOOLEAN :
         sandbox' = [sandbox EXCEPT !.inits[i].pc =
                                      IF connected THEN "connected" ELSE "grace"]
    /\ UNCHANGED <<build, now, store>>

\* the 2 s timer of run i fires
ConnectTimeout(i) ==
    /\ sandbox.inits[i].pc = "grace"
    /\ sandbox' = SendGenericError(sandbox, i)
    /\ UNCHANGED <<build, now, store>>

\* the player of run i reports authentication_error, account_error or
\* initialization_error (once); a player that was disconnected reports nothing
SdkErrorEvent(i) ==
    /\ sandbox.inits[i].pc \in {"connecting", "grace", "connected"}
    /\ ~sandbox.inits[i].reported
    /\ i \in sandbox.live
    /\ \E error \in SdkErrors :
         sandbox' = IF ~sandbox.errorSent
                    THEN [sandbox EXCEPT !.errorSent = TRUE,
                                         !.inits[i].reported = TRUE,
                                         !.inits[i].sent = Append(@, error)]
                    ELSE [sandbox EXCEPT !.inits[i].reported = TRUE]
    /\ UNCHANGED <<build, now, store>>

FrameInit ==
    /\ build \in Builds
    /\ now = 0
    /\ store = ValidCredential
    /\ calls = [c \in Callers |-> IdleCall]
    /\ AuthIdle
    /\ PlayIdle
    /\ pkce = IdlePkce
    /\ api = IdleApi
    /\ sandbox = IdleSandbox
    /\ popupInit = IdlePopupInit
    /\ missed = {}
    /\ lookup = IdleLookup
    /\ pend = IdlePending
    /\ ctl = IdleCommands
    /\ authUi = IdleAuthUi
    /\ waits = IdleWaits
    /\ deviceSource = "none"
    /\ tokenChanges = 0

FrameNext ==
  /\ UNCHANGED <<tokenState, authState, playState, pkceState, apiState, reopenState, lookupState, pendState, ctlState, authUiState, waitState, sourceState, changeState>>
  /\
    \/ \E i \in InitCalls : OnInitPlayer(i)
    \/ \E i \in InitCalls : DisconnectDone(i)
    \/ \E i \in InitCalls : ConnectReturns(i)
    \/ \E i \in InitCalls : ConnectTimeout(i)
    \/ \E i \in InitCalls : SdkErrorEvent(i)

SpecFrame == FrameInit /\ [][FrameNext]_vars

\* ===================================================================== claims
\* a step in which call c leaves program point p
Leaves(c, p) == calls[c].pc = p /\ calls'[c].pc # p

\* the refresh of call c writes its tokens in this step
RefreshWrites(c) == calls[c].pc = "ref_fetch" /\ calls'[c].pc = "ref_set" /\ calls'[c].wrote

\* C1: when getAccessToken reads a credential whose expiry is more than 5
\* minutes ahead it resolves with the stored access token and sends nothing to
\* the token endpoint; in every other case (inside the margin, expired, access
\* token or expiry missing) it goes on to refresh, and a refresh that finds the
\* stored refresh token sends exactly one refresh_token request.
C1_CachedStep ==
    \A c \in Callers :
      (Leaves(c, "gat_get") /\ calls'[c].cause # "lastError") =>
         IF store.at # None /\ store.exp # None /\ store.exp - now > MarginMinutes
         THEN /\ calls'[c].pc = "settled" /\ calls'[c].outcome = "resolved"
              /\ calls'[c].result = store.at /\ calls'[c].reqs = 0
         ELSE calls'[c].pc = "ref_get" /\ calls'[c].reqs = 0

C1_RefreshStep ==
    \A c \in Callers :
      (Leaves(c, "ref_get") /\ calls'[c].cause # "lastError" /\ store.rt # None) =>
         calls'[c].pc = "ref_fetch" /\ calls'[c].reqs = 1

C1_OneRequest ==
    \A c \in Callers :
      /\ calls[c].pc \in {"ref_fetch", "ref_set", "ref_verify"} => calls[c].reqs = 1
      /\ (calls[c].pc = "settled" /\ calls[c].cause \in {"network", "notOk", "notStored"})
            => calls[c].reqs = 1
      /\ calls[c].reqs <= 1

C2_RefreshKeepsRefreshToken ==
    [][\A c \in Callers :
         (RefreshWrites(c) /\ calls'[c].resp.refresh_token = None) =>
            /\ store'.rt = calls[c].rt
            /\ store'.rt = store.rt
            /\ store'.at = calls'[c].resp.access_token
            /\ store'.exp = now + (IF calls'[c].resp.expires_in \in {None, 0}
                                   THEN DefaultExpiresIn
                                   ELSE calls'[c].resp.expires_in)]_vars

\* {A1,R1} refreshed with {access_token: A2} (no refresh_token, no expires_in)
C2_Witness ==
    \E c \in Callers :
      /\ calls[c].pc = "ref_set" /\ calls[c].wrote
      /\ calls[c].resp.refresh_token = None /\ calls[c].resp.expires_in = None
      /\ calls[c].rt = 1 /\ store.rt = 1
      /\ calls[c].resp.access_token = 2 /\ store.at = 2
      /\ store.exp = now + DefaultExpiresIn

\* C3: when a refresh whose 2xx response carries a refresh_token writes the
\* store, the stored refresh token becomes the one in the response.
C3_RefreshOverwritesRefreshToken ==
    [][\A c \in Callers :
         (RefreshWrites(c) /\ calls'[c].resp.refresh_token # None) =>
            store'.rt = calls'[c].resp.refresh_token]_vars

\* an authenticate() call settles in this step
Settles(a) == attempts[a].outcome = "none" /\ attempts'[a].outcome # "none"

\* C4: when authenticate() has received a token-endpoint answer to its code
\* exchange and settles, isAuthenticated() is true exactly if the answer held
\* both an access token and a refresh token; an answer missing either makes
\* authenticate() fail with the incomplete-token error and leaves
\* isAuthenticated() false.  Stated for the most favourable case: the only
\* attempt so far on an empty store, with no storage error.
C4_AuthenticatedIffBothTokens ==
    [][\A a \in Attempts :
         ( /\ Settles(a)
           /\ attempts'[a].gotTokenData
           /\ attempts'[a].err # "lastError"
           /\ \A b \in Attempts \ {a} : attempts[b].pc = "idle" )
         => /\ isAuthenticated(store') <=> attempts'[a].complete
            /\ ~attempts'[a].complete =>
                 /\ attempts'[a].outcome = "rejected"
                 /\ attempts'[a].err = "incomplete"
                 /\ ~isAuthenticated(store')]_vars

\* C5: at no time are two authenticate() flows running at once; a second
\* 'authenticate' request that arrives while one is in flight starts none.
C5_OneAuthenticateAtATime ==
    Cardinality({a \in Attempts : Running(a)}) <= 1

\* C6: every token-exchange request carries the authorization code of one
\* attempt together with the verifier generated by that same attempt: a
\* verifier and not a challenge, and the one whose digest is the challenge
\* that attempt put in its authorization URL.
C6_ExchangeUsesOwnVerifier ==
    \A a \in Attempts :
      attempts[a].req # NoRequest =>
        LET r == attempts[a].req
        IN  /\ r.code \in Attempts
            /\ r.code_verifier.h = 0
            /\ r.code_verifier = Verifier(r.code)
            /\ generateCodeChallenge(r.code_verifier) = attempts[r.code].urlChallenge

\* two attempts have both sent their exchange request and wait for the answer
C6_Witness ==
    \E a, b \in Attempts :
      /\ a # b
      /\ attempts[a].pc = "exchanging" /\ attempts[b].pc = "exchanging"
      /\ attempts[a].req.code = a /\ attempts[b].req.code = b

\* C7: a request made while the session was not ready, and still queued when
\* the frame's ready notification with device id D was handled, has got
\* exactly one play command once its call has ended: scoped to D, carrying
\* the request's track list, and the pending slot is empty.  Stated for a
\* single request that has a playable track, in a session that is still
\* authenticated and ready on D when the call ends.
C7_QueuedRequestPlayedOnceOnReady ==
    \A p \in PlayCalls :
      ( /\ plays[p].unready /\ plays[p].sawReady
        /\ plays[p].pc = "done" /\ inbox = <<>>
        /\ player.isAuthenticated /\ player.isPlayerReady
        /\ player.deviceId = FrameDeviceId
        /\ \A q \in PlayCalls \ {p} : plays[q].pc = "idle"
        /\ TrackUris(plays[p].recs) # <<>> )
      => /\ cmds[p] = <<[device |-> FrameDeviceId, uris |-> TrackUris(plays[p].recs)]>>
         /\ player.pendingRecommendations = None

\* C8: of the requests made while the session is not ready only the most
\* recent one is played: no play command is sent for a request after a newer
\* request (with a playable track) has been made.
C8_NoSupersededRequestPlayed ==
    [][\A p, q \in PlayCalls :
         ( /\ p < q
           /\ plays[p].unready /\ plays[q].unready
           /\ plays[q].pc # "idle" /\ TrackUris(plays[q].recs) # <<>> )
         => cmds'[p] = cmds[p]]_vars

\* C9: when the popup handles a player_error whose text contains "Premium",
\* "Authentication" or "Account", the auth UI is shown, the popup's
\* authenticated flag is false and the token store is unchanged.
C9_AuthErrorShowsAuthUIKeepsTokens ==
    [][( /\ inbox # <<>>
         /\ Head(inbox).type = "player_error"
         /\ \E word \in {"Premium", "Authentication", "Account"} : word \in Head(inbox).error
         /\ inbox' = Tail(inbox) )
       => /\ player'.authUIShown
          /\ ~player'.isAuthenticated
          /\ store' = store]_vars

\* the frame's "check your Premium subscription" error has been handled while
\* a credential is stored and a token is loaded
C9_Witness ==
    /\ frame = [state |-> "failed", error |-> ConnectError]
    /\ inbox = <<>>
    /\ player.authUIShown /\ ~player.isAuthenticated
    /\ player.accessToken # None
    /\ isAuthenticated(store)

\* the characters RFC 7636 allows in a code verifier: ALPHA / DIGIT / - . _ ~
Unreserved ==
    {Base64Alphabet[i] : i \in 1..62} \cup {"-", ".", "_", "~"}

\* C10: every code verifier generateCodeVerifier returns is 43 to 128
\* characters long and consists of unreserved URL-safe characters only, with
\* no "=" padding.
C10_VerifierLengthAndCharset ==
    pkce.pc = "done" =>
      /\ pkce.length >= 43 /\ pkce.length <= 128
      /\ pkce.chars \subseteq Unreserved
      /\ "=" \notin pkce.chars

\* C11: whenever isAuthenticated() answers true, the store holds an access
\* token and a refresh token; and whenever its storage read succeeds it
\* answers true exactly if both are stored, whatever the stored expiry is
\* (ahead, in the past, or null).
C11_AuthenticatedIffBothTokensAnyExpiry ==
    [][( api.op = "isAuthenticated" /\ api.pc = "get" /\ api'.pc = "settled" )
       => /\ api'.result => (store.at # None /\ store.rt # None)
          /\ api'.cause # "lastError" =>
                (api'.result <=> (store.at # None /\ store.rt # None))]_vars

\* isAuthenticated() has answered true for a credential that expired
C11_Witness ==
    /\ api.op = "isAuthenticated" /\ api.pc = "settled" /\ api.result
    /\ store.exp = 1 /\ now >= 2

\* C11, null expiry: true was answered for a credential stored without expiry
C11_WitnessNoExpiry ==
    /\ api.op = "isAuthenticated" /\ api.pc = "settled" /\ api.result
    /\ store.exp = NaN

\* the refresh failures C12 names: no refresh token stored, a non-2xx answer,
\* a fetch that throws
RefreshFailures == {"noRefreshToken", "notOk", "network"}

\* C12: when the refresh that getAccessToken performs fails because no
\* refresh token is stored, the token endpoint answers with a non-success
\* status or the request fails, getAccessToken rejects with the
\* re-authentication message, and no step of that call, from its start to
\* the rejection, changes the stored access token, refresh token or expiry.
C12_FailedRefreshKeepsStore ==
    [][\A c \in Callers :
         /\ ( calls[c].pc \in {"idle", "gat_get", "ref_get"} /\ calls'[c] # calls[c] )
              => store' = store
         /\ ( calls[c].pc # "settled" /\ calls'[c].pc = "settled"
               /\ calls'[c].cause \in RefreshFailures )
              => /\ calls'[c].outcome = "rejected"
                 /\ calls'[c].err = "Token expired and refresh failed. Please re-authenticate."
                 /\ calls'[c].result = None
                 /\ store' = store]_vars

\* the token endpoint refused the refresh of a stored credential
C12_Witness ==
    \E c \in Callers :
      /\ calls[c].pc = "settled" /\ calls[c].outcome = "rejected"
      /\ calls[c].cause = "notOk" /\ calls[c].reqs = 1
      /\ store.at # None /\ store.rt # None /\ store.exp # None

\* C13: a clearTokens() whose storage request succeeds leaves no access
\* token, refresh token or expiry in the store and resolves; an
\* isAuthenticated() that reads the cleared store answers false; and a
\* clearTokens() on an already empty store also resolves and leaves it empty.
C13_ClearTokensEmptiesStore ==
    [][/\ ( api.pc = "idle" /\ api'.op = "clearTokens" /\ api'.wrote )
            => /\ store'.at = None /\ store'.rt = None /\ store'.exp = None
               /\ ~(Truthy(store'.at) /\ Truthy(store'.rt))
       /\ ( api.op = "clearTokens" /\ api.pc = "remove" /\ api.wrote /\ api'.pc = "settled" )
            => /\ api'.outcome = "resolved"
               /\ store'.at = None /\ store'.rt = None /\ store'.exp = None
       /\ ( api.op = "isAuthenticated" /\ api.pc = "get" /\ api'.pc = "settled"
             /\ store.at = None /\ store.rt = None )
            => ~api'.result]_vars

\* clearTokens() was called on an empty store and has resolved
C13_Witness ==
    /\ api.op = "clearTokens" /\ api.pc = "settled" /\ api.outcome = "resolved"
    /\ api.onEmpty
    /\ store = EmptyStore

\* C14: an authenticate() flow that was waiting for consent or for the token
\* exchange when a clearTokens() resolved does not write tokens into the
\* store afterwards.
C14_LogoutStopsInflightFlow ==
    [][\A a \in Attempts :
         ( /\ api.op = "clearTokens" /\ api.pc = "settled" /\ api.outcome = "resolved"
           /\ a \in api.inflight )
         => ~( attempts[a].pc = "exchanging" /\ attempts'[a].pc = "set"
               /\ attempts'[a].wrote )]_vars

\* position of the first occurrence of event e in the event list, 0 if none
First(events, e) ==
    IF \E i \in 1..Len(events) : events[i] = e
    THEN CHOOSE i \in 1..Len(events) :
           events[i] = e /\ \A j \in 1..(i - 1) : events[j] # e
    ELSE 0

Terminal(events) == {i \in 1..Len(events) : events[i] \in {"success", "error"}}

\* C15: the relay's response to an 'authenticate' request has been sent by
\* the time the flow waits for consent or for the token exchange, and it
\* comes before the terminal 'success' or 'error' status event.
C15_AckBeforeCompletion ==
    \A a \in Attempts :
      /\ attempts[a].pc \in {"consent", "exchanging"}
           => First(attempts[a].events, "sendResponse") # 0
      /\ \A i \in Terminal(attempts[a].events) :
           /\ First(attempts[a].events, "sendResponse") # 0
           /\ First(attempts[a].events, "sendResponse") < i

\* C16: when the relay sends status 'success', authenticate() has resolved,
\* the relay's own isAuthenticated() has read both tokens, and the store
\* holds an access token and a refresh token.
C16_SuccessOnlyWhenVerified ==
    [][\A a \in Attempts :
         ( First(attempts[a].events, "success") = 0
           /\ First(attempts'[a].events, "success") # 0 )
         => /\ attempts[a].pc = "relay_check"
            /\ attempts[a].outcome = "resolved"
            /\ store.at # None /\ store.rt # None
            /\ store'.at # None /\ store'.rt # None]_vars

\* the legacy copy resolved authenticate() with a partial credential in the
\* store and the relay answered 'error'; another request ended in 'success'
C16_Witness ==
    \E a, b \in Attempts :
      /\ attempts[a].pc = "done" /\ attempts[a].status = "success"
      /\ attempts[a].outcome = "resolved"
      /\ attempts[b].pc = "done" /\ attempts[b].outcome = "resolved"
      /\ attempts[b].status = "error"

\* the status events of a request, in order
Statuses(events) == SelectSeq(events, LAMBDA e : e # "sendResponse")

C19_ResolvesOnlyWhenStored ==
    [][\A a \in Attempts :
         ( Settles(a) /\ attempts'[a].outcome = "resolved" )
         => /\ attempts[a].wrote
            /\ store'.at # None /\ store'.rt # None]_vars

\* C20: when the 2 s timer set after a negative connect() fires, the generic
\* connectivity PLAYER_ERROR is sent if no error event was reported for that
\* run's player, and nothing is sent if one was.
C20_GenericErrorIffNoErrorEvent ==
    [][\A i \in InitCalls :
         ( sandbox.inits[i].pc = "grace" /\ sandbox'.inits[i].pc = "done" )
         => sandbox'.inits[i].sent =
              IF sandbox.inits[i].reported
              THEN sandbox.inits[i].sent
              ELSE Append(sandbox.inits[i].sent, ConnectError)]_vars


\* C17: when the popup is closed during the consent flow, the status events
\* sent to it are lost and nothing else happens: closing the popup leaves the
\* relay's flow and the store as they were; the relay reports 'error' only
\* when authenticate() rejected or its own isAuthenticated() check failed,
\* never because an event found no receiver; a 'success' that found no
\* receiver was sent with both tokens in the store; a popup opened after that
\* finds isAuthenticated() true (unless the storage read fails) and calls
\* getAccessToken(); and when that resolves the popup holds the token, is
\* authenticated and has sent init_player to its frame.
C17_ClosedPopupFlowCompletes ==
    [][/\ (popup.open /\ ~popup'.open) => (attempts' = attempts /\ store' = store)
       /\ \A a \in Attempts :
            attempts'[a].status = "error" =>
                \/ attempts'[a].outcome = "rejected"
                \/ attempts'[a].err = "relayNotVerified"
       /\ ("success" \in missed' /\ "success" \notin missed) => isAuthenticated(store')
       /\ ("success" \in missed /\ popupInit.pc = "check" /\ popupInit'.pc \notin {"check", "idle"}) =>
                \/ popupInit'.cause = "lastError"
                \/ /\ popupInit'.pc = "load"
                   /\ popupInit'.authenticated
                   /\ calls'[PopupCaller].pc = "gat_get"
                   /\ player' = player
       /\ (popupInit.pc = "load" /\ popupInit'.pc = "done"
              /\ calls[PopupCaller].outcome = "resolved") =>
                /\ player'.isAuthenticated
                /\ player'.accessToken = calls[PopupCaller].result
                /\ player'.accessToken \in Tokens
                /\ frame' = ConnectingFrame]_vars

C17_Witness ==
    /\ popup.open
    /\ "success" \in missed
    /\ \E a \in Attempts : attempts[a].status = "success" /\ attempts[a].pc = "done"
    /\ popupInit.pc = "done"
    /\ player.isAuthenticated
    /\ player.accessToken = store.at
    /\ frame = ConnectingFrame


\* C21: whenever a run of initializePlayer() creates and connects a player
\* instance, every instance created before it has been disconnected: the new
\* instance is the only one that is connected.
C21_NewPlayerReplacesOld ==
    [][\A i \in InitCalls :
         ( sandbox.inits[i].pc # "connecting" /\ sandbox'.inits[i].pc = "connecting" )
         => sandbox'.live = {i}]_vars


\* C22 (as stated): of a device list that was returned, getSpotifyDevices()
\* gives a device with this session's player name if there is one, otherwise
\* an active device that is not the web player if there is one, otherwise the
\* first listed device, and no device for the empty list.
C22_FallbackPrefersFirstDevice ==
    (lookup.pc = "done" /\ ~lookup.failed) =>
        LET devices == lookup.devices
            ours == {i \in 1..Len(devices) : IsOurDevice(devices[i])}
            active == {i \in 1..Len(devices) : IsActiveDevice(devices[i])}
        IN IF ours # {} THEN lookup.result \in ours
           ELSE IF active # {} THEN lookup.result \in active
           ELSE IF Len(devices) > 0 THEN lookup.result = devices[1].id
           ELSE lookup.result = None

\* C22 (amended): ... otherwise the second listed device when two or more are
\* listed and the only listed device when there is one; no device for the
\* empty list.
C22_FallbackPrefersSecondDevice ==
    (lookup.pc = "done" /\ ~lookup.failed) =>
        LET devices == lookup.devices
            ours == {i \in 1..Len(devices) : IsOurDevice(devices[i])}
            active == {i \in 1..Len(devices) : IsActiveDevice(devices[i])}
        IN IF ours # {} THEN lookup.result \in ours
           ELSE IF active # {} THEN lookup.result \in active
           ELSE IF Len(devices) >= 2 THEN lookup.result = devices[2].id
           ELSE IF Len(devices) = 1 THEN lookup.result = devices[1].id
           ELSE lookup.result = None

\* two inactive devices, neither of them ours: the second one is taken
C22_Witness ==
    /\ lookup.pc = "done" /\ ~lookup.failed
    /\ Len(lookup.devices) = 2
    /\ \A i \in 1..2 : ~IsOurDevice(lookup.devices[i]) /\ ~lookup.devices[i].is_active
    /\ lookup.result = lookup.devices[2].id


\* C23: when the read of restorePlayerState() returns in a freshly opened
\* popup, the popup takes over the cached device id and ready flag only if the
\* record has a device id, a true ready flag and a timestamp less than one hour
\* old; otherwise the session is not marked ready, the popup goes on to the
\* authentication check and, once its token is loaded, sends init_player.
C23_AdoptsOnlyFreshRecord ==
    [][/\ (popupInit.pc = "restore" /\ popupInit'.pc # "restore") =>
            LET fresh == /\ player.savedDeviceId # NoDevice
                         /\ player.savedReady
                         /\ player.savedTimestamp # None
                         /\ now - player.savedTimestamp < HourMinutes
            IN /\ (player'.isPlayerReady \/ player'.deviceId # NoDevice) => fresh
               /\ ~fresh => /\ ~player'.isPlayerReady
                            /\ player'.deviceId = NoDevice
                            /\ popupInit'.pc = "check"
       /\ (popupInit.pc = "load" /\ popupInit'.pc = "done" /\ ~player.isPlayerReady
             /\ calls[PopupCaller].outcome = "resolved") => frame' = ConnectingFrame]_vars

\* a record of exactly one hour was not taken over and the player was
\* initialized again
C23_Witness ==
    /\ player.savedDeviceId # NoDevice /\ player.savedReady
    /\ now - player.savedTimestamp = HourMinutes
    /\ popupInit.pc = "done"
    /\ player.isAuthenticated /\ ~player.isPlayerReady
    /\ frame = ConnectingFrame

\* a record younger than one hour was taken over
C23_WitnessAdopted ==
    /\ now - player.savedTimestamp = HourMinutes - 1
    /\ popupInit.pc = "reload"
    /\ player.isPlayerReady /\ player.deviceId = player.savedDeviceId


\* the signal the popup handles in this step
Handled(types) == inbox # <<>> /\ inbox' = Tail(inbox) /\ Head(inbox).type \in types

\* C24: when the popup handles a not-ready signal (NOT_AUTHENTICATED) or a
\* PLAYER_ERROR of the frame, the device session is invalidated: isPlayerReady
\* is false and the device id is cleared; and a play command is only ever sent
\* to the device id of a session that is ready at that moment.
C24_SignalInvalidatesSession ==
    [][/\ Handled({"not_authenticated", "player_error"}) =>
            ~player'.isPlayerReady /\ player'.deviceId = NoDevice
       /\ \A p \in PlayCalls :
            Len(cmds'[p]) > Len(cmds[p]) =>
                /\ cmds'[p][Len(cmds'[p])].device = player'.deviceId
                /\ player'.isPlayerReady]_vars

\* the part of C24 that the code keeps: the not-ready signal
C24_NotReadyInvalidatesSession ==
    [][Handled({"not_authenticated"}) =>
            ~player'.isPlayerReady /\ player'.deviceId = NoDevice]_vars


\* C25: the stored playback request is not touched when the popup is closed
\* or opened.  When the read of checkPendingRecommendations() returns (and the
\* storage calls do not fail), a request younger than 5 minutes is removed
\* from the storage and the run that took it hands it to playback, by calling
\* playRecommendations or by keeping it in pendingRecommendations for the
\* player that is not connected yet; a request of 5 minutes or more is left
\* alone and nothing is played.  Whatever is handed to playback was younger
\* than 5 minutes when it was read.
C25_PendingRequestSurvivesReopen ==
    [][/\ (popup.open # popup'.open) =>
            (pend'.recs = pend.recs /\ pend'.timestamp = pend.timestamp)
       /\ \A k \in Checks :
            /\ ( pend.checks[k].pc = "got" /\ pend'.checks[k].pc \notin {"got", "gone"}
                 /\ pend'.checks[k].cause = NoError /\ pend.checks[k].recs # None ) =>
                    IF now - pend.checks[k].timestamp < FreshMinutes
                    THEN /\ pend'.recs = None /\ pend'.timestamp = None
                         /\ pend'.checks[k].pc = "remove"
                         /\ pend'.checks[k].recs = pend.checks[k].recs
                    ELSE /\ pend'.recs = pend.recs /\ pend'.timestamp = pend.timestamp
                         /\ pend'.checks[k].pc = "done"
                         /\ pend'.checks[k].recs = None
                         /\ pend'.played = pend.played /\ pend'.slot = pend.slot
            /\ ( pend.checks[k].pc \in {"remove", "auth"} /\ pend'.checks[k].pc = "done" ) =>
                    \/ pend'.played = Append(pend.played, pend.checks[k].recs)
                    \/ pend'.slot = pend.checks[k].recs
       /\ (pend'.played # pend.played \/ pend'.slot \notin {pend.slot, None}) =>
            \E k \in Checks :
              /\ pend.checks[k].pc \in {"remove", "auth"} /\ pend'.checks[k].pc = "done"
              /\ now - pend.checks[k].timestamp < FreshMinutes]_vars

\* a request stored before the popup was opened, four minutes old when it was
\* read, has been removed and played
C25_Witness ==
    /\ now - SavedTime = FreshMinutes - 1
    /\ pend.posted = 1
    /\ pend.played = <<1>>
    /\ pend.recs = None
    /\ popup.open

\* a request of exactly five minutes was read and left alone
C25_WitnessOld ==
    /\ now - SavedTime = FreshMinutes
    /\ pend.posted = 1 /\ pend.recs = 1
    /\ \E k \in Checks : pend.checks[k].pc = "done" /\ pend.checks[k].cause = NoError
    /\ pend.played = <<>> /\ pend.slot = None


\* ------------------------------------------------------------------- C26
Failed(cmd) ==
    /\ cmd.pc = "done"
    /\ cmd.response # 0
    /\ IF cmd.action \in TransportActions THEN cmd.response \notin {200, 204}
       ELSE cmd.response # 204

\* C26 as stated: every play, pause, next or previous command that has run
\* sent exactly one Web API request.
C26_EveryCommandSendsOneRequest ==
    \A c \in Commands : ctl[c].pc = "done" => ctl[c].requests = 1

\* C26, amended: no command sends a second request.  A command given to a
\* session with a token and a device (and, for recommendations, a playable
\* track) sends exactly one; a command refused before the request ('Not
\* ready', 'No tracks') sends none; a failed request leaves an error status
\* and the command finished with that one request.
C26_NoCommandIsRetried ==
    \A c \in Commands :
      /\ ctl[c].requests <= 1
      /\ ctl[c].pc = "fetch" => ctl[c].requests = 1
      /\ ctl[c].pc = "done" =>
           /\ ctl[c].requests = 0 <=> ctl[c].status \in {"Not ready", "No tracks"}
           /\ ctl[c].requests = 0 => ctl[c].response = 0
      /\ Failed(ctl[c]) =>
           /\ ctl[c].requests = 1
           /\ ctl[c].status \in {"Control error", "Device not found", "Playback error"}

C26_Witness ==
    \E c \in Commands :
      /\ Failed(ctl[c])
      /\ ctl[c].action = "pause"
      /\ ctl[c].status = "Control error"
      /\ ctl[c].requests = 1


\* ------------------------------------------------------------------- C27
\* C27: the popup's 60 s timer is advisory.  When it fires the popup shows the
\* timeout error and enables the button, and no authenticate flow of the
\* background changes; a 'success' event that reaches the open popup starts
\* the handler run whether or not the timer has fired, and a run that gets
\* its token loads it and initializes the player; a terminal status event
\* that reaches the open popup clears the timer, and the timer fires only
\* while it is armed.
C27_TimeoutIsAdvisory ==
    [][ /\ (authUi'.timedOut /\ ~authUi.timedOut)
             => /\ popup.timer /\ ~popup'.timer /\ ~popup'.disabled
                /\ authUi'.text = "Authentication timeout"
                /\ attempts' = attempts /\ store' = store
                /\ authRequests' = authRequests
        /\ authUi'.text = "Authentication timeout" /\ authUi.text # "Authentication timeout"
             => popup.timer
        /\ \A a \in Attempts :
             /\ (popup.open /\ attempts[a].status # attempts'[a].status
                            /\ attempts'[a].status \in {"success", "error"})
                  => /\ ~popup'.timer
                     /\ attempts'[a].status = "success"
                          => authUi'.runs[a] = [pc |-> "verify", late |-> authUi.timedOut]
             /\ (authUi.runs[a].pc = "load" /\ authUi'.runs[a].pc = "idle"
                   /\ calls[HandlerCaller(a)].outcome = "resolved")
                  => /\ player'.accessToken = calls[HandlerCaller(a)].result
                     /\ player'.accessToken \in Tokens
                     /\ player'.isAuthenticated
                     /\ frame' = ConnectingFrame
                     /\ authUi'.text = "Connected"
      ]_vars

\* a 'success' event that arrived after the timeout has had its token loaded
C27_Witness ==
    \E a \in Attempts :
      /\ authUi.timedOut
      /\ authUi.runs[a].pc = "load" /\ authUi.runs[a].late
      /\ calls[HandlerCaller(a)].pc = "settled"
      /\ calls[HandlerCaller(a)].outcome = "resolved"
      /\ attempts[a].status = "success"


\* ------------------------------------------------------------------- C28
\* C28: an authenticate() attempt that fails because consent was cancelled or
\* the platform reported an error, because the callback carried no
\* authorization code, because the token endpoint answered without success or
\* because its answer was incomplete, has written nothing to the token store,
\* and its failing step leaves the store as it is; an attempt that fails
\* before it has a code has sent no token-exchange request.
C28_FailedAttemptLeavesStore ==
    [][\A a \in Attempts :
         (/\ attempts[a].outcome = "none"
          /\ attempts'[a].outcome = "rejected"
          /\ attempts'[a].err \in ConsentFailures \cup {"network", "notOk", "incomplete"})
           => /\ store' = store
              /\ ~attempts'[a].wrote
              /\ attempts'[a].err \in ConsentFailures => attempts'[a].req = NoRequest
      ]_vars

\* an attempt has failed on an incomplete answer while the store holds the
\* tokens of another attempt, and one has failed for want of a code
C28_Witness ==
    /\ isAuthenticated(store)
    /\ \E a, b \in Attempts :
         /\ attempts[a].outcome = "rejected" /\ attempts[a].err = "incomplete"
         /\ attempts[a].gotTokenData /\ ~attempts[a].wrote
         /\ attempts[b].wrote


\* ------------------------------------------------------------------- C29
\* C29 as stated: a refresh that writes the store sets the expiry to the time
\* of the refresh plus 3600 s when the response has no expires_in, and to
\* the time of the refresh plus n when the response has expires_in = n.
C29_RefreshExpiryFollowsResponse ==
    [][\A c \in Callers :
         RefreshWrites(c) =>
            store'.exp = now + (IF calls'[c].resp.expires_in = None
                                THEN DefaultExpiresIn
                                ELSE calls'[c].resp.expires_in)]_vars


\* ------------------------------------------------------------------- C30
\* an authenticate() flow / a refresh has issued its write of the token store
\* and has not settled yet
AuthenticateWriting(a) == attempts[a].wrote /\ attempts[a].pc \in {"set", "verify", "auth_check"}
RefreshWriting(c) == calls[c].wrote /\ calls[c].pc \in {"ref_set", "ref_verify"}

\* C30 as stated: at most one authenticate or refresh operation that writes
\* the token store is in flight at any moment, across the popup and the
\* background and across all callers of getAccessToken.
C30_SingleWriterInFlight ==
    Cardinality({a \in Attempts : AuthenticateWriting(a)})
      + Cardinality({c \in Callers : RefreshWriting(c)}) <= 1


\* ------------------------------------------------------------------- C31
\* C31: the storage never holds a code verifier (the spotify_code_verifier
\* key is never written), and the verifier of an authenticate() call is held
\* by that call alone: no other call's closure or request carries it.
C31_VerifierNeverPersisted ==
    /\ store.cv = None
    /\ \A a \in Attempts :
         /\ attempts[a].pc # "idle" => attempts[a].codeVerifier = Verifier(a)
         /\ \A b \in Attempts \ {a} :
              /\ attempts[b].codeVerifier # Verifier(a)
              /\ attempts[b].req.code_verifier # Verifier(a)

\* an authenticate() call has exchanged its code with its verifier and
\* stored the tokens
C31_Witness ==
    \E a \in Attempts :
      /\ attempts[a].outcome = "resolved" /\ attempts[a].wrote
      /\ attempts[a].req.code_verifier = Verifier(a)
      /\ isAuthenticated(store)


\* ------------------------------------------------------------------- C32
\* C32 as stated: in every state of the token store the access token and the
\* refresh token are both present or both absent, and no expiry is stored
\* without both tokens.
C32_TokensBothOrNeither ==
    /\ Truthy(store.at) <=> Truthy(store.rt)
    /\ store.exp # None => Truthy(store.at) /\ Truthy(store.rt)


\* ------------------------------------------------------------------- C33
\* C33 as stated: once a readiness wait has resolved, its timeout, its
\* polling interval and its message listener are cancelled, and none of
\* its callbacks runs afterwards.
C33_ResolvedWaitIsCancelled ==
    \A p \in PlayCalls :
      waits[p].pc = "resolved" =>
        /\ ~waits[p].timer
        /\ ~waits[p].interval
        /\ ~waits[p].listener
        /\ ~waits[p].ranLate


\* ------------------------------------------------------------------- C34
\* C34 as stated: when the fallback query of a wait's timeout answers after
\* the frame's ready notification has set the device id, the session keeps
\* the device id the frame reported.
C34_FrameDeviceIdKept ==
    [][\A p \in PlayCalls :
         (/\ deviceSource = "frame" /\ player.isPlayerReady
          /\ waits[p].pc = "fallback" /\ waits'[p].pc = "resolved")
           => player'.deviceId = player.deviceId]_vars


\* ------------------------------------------------------------------- C35
\* C35 as stated (spotify_sandbox.js): the 2 s timer of a connection attempt
\* sends its generic PLAYER_ERROR only while that attempt is the newest: not
\* once a later init_player has created and connected its own player, and
\* not after that player's connect() has succeeded.
C35_GenericErrorOnlyForOwnAttempt ==
    [][\A i \in InitCalls :
         (/\ build = "current"
          /\ sandbox.inits[i].pc = "grace" /\ sandbox'.inits[i].pc = "done"
          /\ Len(sandbox'.inits[i].sent) > Len(sandbox.inits[i].sent))
           => \A j \in InitCalls :
                j > i => sandbox.inits[j].pc \notin {"connecting", "grace", "connected"}]_vars


\* ------------------------------------------------------------------- C36
\* the play commands (playRecommendations calls) made for request r
PlaysOf(r) == {i \in DOMAIN pend.played : pend.played[i] = r}

\* C36 as stated: a playback request written by the background is played at
\* most once, whichever runs of checkPendingRecommendations() (the one of the
\* popup's start and the ones of the storage-change listener) overlap.
C36_RequestPlayedAtMostOnce ==
    \A r \in 1..MaxRequests : Cardinality(PlaysOf(r)) <= 1


\* ------------------------------------------------------------------- C37
\* C37 as stated (spotify_sandbox.js): however the runs of initializePlayer()
\* started by init_player messages interleave, at most one player instance is
\* connected at any time, and an instance that is connected is the one the
\* frame holds in spotifyPlayer (none was dropped without a disconnect()).
C37_AtMostOnePlayerConnected ==
    build = "current" =>
        /\ Cardinality(sandbox.live) <= 1
        /\ \A i \in sandbox.live : sandbox.spotifyPlayer = i


\* ------------------------------------------------------------------- C38
\* C38 as stated: for one init_player the frame sends at most one
\* PLAYER_ERROR for a failure before readiness (the SDK does not load, the
\* connection is refused, authentication, account or initialization error).
C38_OneErrorPerAttempt ==
    \A i \in InitCalls : Len(sandbox.inits[i].sent) <= 1


\* ------------------------------------------------------------------- C39
\* no token-change event waits, no initializePlayerAuth() run is under way
\* and no getAccessToken() call is open
ReactQuiescent ==
    /\ tokenChanges = 0
    /\ popupInit.pc \in {"idle", "done"}
    /\ calls[PopupCaller].pc = "idle"

\* C39 as stated: after tokens were written, the chain storage-change event
\* -> initializePlayerAuth -> getAccessToken -> (refresh -> token write ->
\* storage-change event) comes to rest for good after finitely many steps,
\* whatever lifetimes the provider grants.
C39_ReactionTerminates == <>[]ReactQuiescent


\* ------------------------------------------------------------------- C40
\* C40 as stated (part_000): once an authenticate() has stored the tokens of
\* its code exchange and resolved, the stored refresh token stays the one of
\* that exchange until the next authenticate or logout: a refresh, also one
\* that read its refresh token before the exchange was answered, does not
\* change it.
C40_RefreshKeepsExchangedToken ==
    [][\A c \in Callers :
         ( /\ build = "current"
           /\ RefreshWrites(c)
           /\ \E a \in Attempts : attempts[a].wrote /\ attempts[a].outcome = "resolved" )
         => store'.rt = store.rt]_vars

====
